---- MODULE Spec2Model ----
(***************************************************************************)
(* A model of splinterd's daemon assembly (splinterd/src/daemon.rs):       *)
(* SplinterDaemonBuilder::build, the startup sequence of                   *)
(* SplinterDaemon::start, the threads it spawns (the service-listener      *)
(* thread, one accept loop per network endpoint, the Ctrl-C handler) and   *)
(* the shutdown sequence that ends start(); and of the libsplinter         *)
(* components start() assembles, as the specification describes them: the  *)
(* peer manager's reference counts, the Mesh's send and receive, the two   *)
(* dispatch loops and the routing table.                                   *)
(***************************************************************************)
EXTENDS Naturals, Integers, Sequences, FiniteSets, TLC

\* Bound: how many events the environment feeds the spawned threads: a
\* connection arriving at a network listener, an accept error, an exhausted
\* listener, a failing add_inbound_connection.
MaxEvents == 1

None == "None"

(***************************************************************************)
(* Configuration values the model draws its inputs from.                   *)
(***************************************************************************)
\* The Option<..> fields of SplinterDaemonBuilder that build() requires
\* (default features), in the order build() checks them.
RequiredFields ==
    << "heartbeat", "node_id", "state_dir", "network_endpoints",
       "advertised_endpoints", "initial_peers", "display_name",
       "rest_api_endpoint", "registry_auto_refresh",
       "registry_forced_refresh", "strict_ref_counts" >>

\* The fields the builder's with_* setters can set to Some(..).
BuilderFields == { RequiredFields[i] : i \in 1..Len(RequiredFields) }

\* The heartbeat intervals, in seconds, a daemon may be configured with.
HeartbeatIntervals == { "1", "2" }

\* The number of seconds of a configured heartbeat interval.
Seconds(v) == IF v = "1" THEN 1 ELSE 2

\* Values a setter may store: the model keeps the values of strict_ref_counts
\* and heartbeat, and one representative value for every other field.
FieldValues(f) ==
    IF f = "strict_ref_counts" THEN {"true", "false"}
    ELSE IF f = "heartbeat" THEN HeartbeatIntervals
    ELSE {"set"}

\* The network endpoints a daemon may be configured with.
EndpointSet == { "tcps://0.0.0.0:8044", "tcp://0.0.0.0:8045" }

node_id == "node-000"

VARIABLES
    builder,        \* SplinterDaemonBuilder: field -> None or the value set
    buildResult,    \* what build() returned: "none" (not called), "Ok", or the CreateError
    daemon,         \* the SplinterDaemon build() constructed (built = FALSE: none)
    health,         \* whether the crate is compiled with feature "health"
    network_endpoints,  \* self.network_endpoints
    self_initial_peers,  \* self.initial_peers
    options,        \* the Option<..> settings build() passes on as they are
    features,       \* the cargo features compiled in, of "database" and "auth"
    pc,             \* position of the thread running SplinterDaemon::start
    result,         \* what start() returned: "none", "Ok" or the StartError variant
    failedStep,     \* the step of start() whose error made it return
    admin_service_store, \* start()'s admin_service_store, and the store factories made
    auth_configs,   \* start()'s auth_configs, as given to the REST API builder
    peer_refs,      \* start()'s peer_refs: the endpoints whose PeerRef it holds
    connect_errors, \* the initial peers (by position) whose "Connect Error" was logged
    network_listeners,          \* endpoints transport.listen() has bound
    internal_service_listeners, \* the inproc listeners, in push order
    inproc_ids,     \* the (uri, identity) pairs given to InprocAuthorizer::new
    connected,      \* inproc URIs service_transport.connect() was called on
    pending,        \* inproc URIs with a connection waiting to be accepted
    inbound,        \* remote endpoints handed to add_inbound_connection by the service listener
    svcPc,          \* service-listener thread: "unspawned", the URI of the listener it accepts on, "exited"
    svcResult,      \* what the service-listener closure returned
    svc_log,        \* service-listener thread: << listener, what its accept led to >>
    listenerState,  \* per network endpoint: "unspawned", "accepting", "exited"
    accepted,       \* per network endpoint: connections added to the connection manager
    lastAccept,     \* per network endpoint: the last connection_result of its accept loop
    add_errors,     \* per network endpoint: accepted connections whose add_inbound_connection failed
    alive,          \* the components/threads that are running
    signalled,      \* the shutdown signalers that have fired
    running,        \* the AtomicBool `running`
    hpc,            \* Ctrl-C handler: "unset", "armed", its next statement, "done"
    events,         \* environment events fed to the spawned threads so far
    pm_strict,      \* the peer manager's strict_ref_counts policy ("unset" before it starts)
    peers,          \* the peer table: key -> [n, endpoints, connection]
    live_refs,      \* per key: the PeerRefs created and not yet dropped
    pm_fatal,       \* the peer manager hit a fatal error (strict underflow)
    pm_logged,      \* the peer manager logged an underflow (lenient mode)
    pm_last,        \* the last peer manager operation: [op, key, before]
    mesh_conn,      \* per connection: "NEW", "AUTHORIZED", "FAILED", "CLOSED"
    mesh_outgoing,  \* per connection: the sender side's outgoing queue
    mesh_wire,      \* per connection: the frames written and not yet read
    mesh_incoming,  \* the remote Mesh's consumer queue of <<connection, payload>>
    mesh_sent,      \* per connection: the payloads of the sends that succeeded
    mesh_received,  \* per connection: the payloads the remote receive() yielded
    mesh_send_result, \* what the last Mesh.send returned
    mesh_known,     \* the connections the Mesh holds
    pm_known,       \* the connections the peer manager has been told of
    conn_closed,    \* the connections that have been closed
    auth_cause,     \* per connection: why its handshake failed ("none": it did not)
    arrived,        \* the network envelopes the interconnect delivered, in arrival order
    net_queue,      \* channel of the network dispatch loop: indices into arrived
    circuit_queue,  \* channel of the circuit dispatch loop: indices into arrived
    net_running,    \* the envelope whose network handler is running (<< >>: none)
    circuit_running, \* the envelope whose circuit handler is running (<< >>: none)
    net_log,        \* network loop: << "invoke" | "complete", envelope >> events
    circuit_log,    \* circuit loop: << "invoke" | "complete", envelope >> events
    circuits,       \* routing table: circuit_id -> [members, roster]
    services,       \* routing table: << circuit_id, service_id >> -> node_id
    outbox,         \* messages the handlers sent through the network sender
    disp_closed,    \* source connections closed on a protocol error
    rt_last,        \* the last routing table write: [req, count, after]
    records,        \* orchestrator: the state of each service record
    rec_cause,      \* orchestrator: the recorded cause of a processor failure
    orch_last,      \* orchestrator: the last operation [op, svc, before, ok]
    hb_interval,    \* the connection manager's heartbeat interval (0 before it starts)
    hb_now,         \* the time, in seconds since the connection manager started
    hb_due,         \* the time of the next heartbeat round
    hb_last_seen,   \* per connection: the time traffic was last seen on it
    hb_sent,        \* per connection: the HEARTBEAT frames sent to it
    hb_notified,    \* the (subscriber, connection) failure notifications made
    hb_last,        \* the last heartbeat round: [at, sent_to, failed]
    fc_factory,     \* the ScabbardFactory: [db_dir, db_size] (made = FALSE: none)
    fc_new,         \* the arguments of the last ScabbardFactory::new
    fc_call,        \* the arguments of the last ScabbardFactory::create
    fc_result,      \* what it returned: [kind, msg, service, constructions]
    kg_files,       \* keygen: the files of the key directory, path -> bytes
    kg_call,        \* keygen: the arguments of the last create_key_pair
    kg_keys,        \* keygen: the key pair it generated
    kg_written,     \* keygen: what it wrote to the public key file
    kg_result,      \* keygen: what it returned: [kind, value]
    oauth_user_session_store, \* the OAuth user sessions: access token -> session
    oauth_call,     \* the last GetUserByOAuthAuthorization::get: [authorization, store_fails]
    oauth_result    \* what it returned: [kind, user, lookups]

builderVars == << builder, buildResult, daemon, network_endpoints,
                  self_initial_peers,
                  options, features >>
transportVars == << network_listeners, internal_service_listeners, inproc_ids,
                    connected, pending >>
svcVars == << inbound, svcPc, svcResult, svc_log >>
listenerVars == << listenerState, accepted, lastAccept, add_errors, events >>
startVars == << admin_service_store, auth_configs, peer_refs, connect_errors >>
mainVars == << pc, result, failedStep, startVars >>
shutdownVars == << signalled, running, hpc >>
peerTableVars == << peers, live_refs, pm_fatal, pm_logged, pm_last >>
authVars == << mesh_known, pm_known, conn_closed, auth_cause >>
meshVars == << mesh_conn, mesh_outgoing, mesh_wire, mesh_incoming, mesh_sent,
              mesh_received, mesh_send_result, authVars >>
loopVars == << arrived, net_queue, circuit_queue, net_running, circuit_running,
              net_log, circuit_log >>
routingVars == << circuits, services, rt_last >>
dispatchVars == << loopVars, routingVars, outbox, disp_closed >>
netVars == << meshVars, dispatchVars >>
orchVars == << records, rec_cause, orch_last >>
pacemakerVars == << hb_now, hb_due, hb_last_seen, hb_sent, hb_notified, hb_last >>
factoryVars == << fc_factory, fc_new, fc_call, fc_result >>
keygenVars == << kg_files, kg_call, kg_keys, kg_written, kg_result >>
oauthUserVars == << oauth_user_session_store, oauth_call, oauth_result >>
otherVars == << orchVars, pacemakerVars, factoryVars, keygenVars, oauthUserVars >>
libVars == << pm_strict, hb_interval, peerTableVars, netVars, otherVars >>
daemonVars == << builderVars, health, mainVars, transportVars, svcVars,
                listenerVars, alive, shutdownVars >>

vars == << builder, buildResult, daemon, health, network_endpoints,
           self_initial_peers, options, features,
           pc, result, failedStep, admin_service_store, auth_configs, peer_refs,
           connect_errors,
           svc_log,
           network_listeners, internal_service_listeners, inproc_ids,
           connected, pending, inbound, svcPc, svcResult,
           listenerState, accepted, lastAccept, add_errors, alive, signalled, running, hpc,
           events, libVars >>

(***************************************************************************)
(* SplinterDaemonBuilder                                                   *)
(***************************************************************************)

\* The state directory the daemon is configured with.
state_dir == "/var/lib/splinter"

\* The storage types, database URLs and OAuth providers a daemon may be
\* configured with (None: not set).
StorageTypes == { None, "yaml", "memory", "sqlite" }
DbUrls == { None, "memory", "postgres://db" }
OAuthProviderArgs == { None, "azure", "github", "google", "openid", "okta" }
OAuthArgs == { None, "set" }

\* The settings of a daemon that keeps its state in YAML files and has no
\* database and no OAuth provider.
DefaultOptions ==
    [storage_type |-> "yaml", db_url |-> None, oauth_provider |-> None,
     oauth_client_id |-> None, oauth_client_secret |-> None,
     oauth_redirect_url |-> None, oauth_openid_url |-> None]

\* A daemon with the default features, no initial peer, YAML state.
DefaultConfig ==
    /\ self_initial_peers = << >>
    /\ options = DefaultOptions
    /\ features = {}

\* No admin service store yet, and no store factory made.
NoStore == [kind |-> "none", factory |-> 0, files |-> << >>, factories |-> << >>]

\* SplinterDaemonBuilder::new(): every Option field is None.
BuilderNew == [f \in BuilderFields |-> None]

\* No SplinterDaemon has been constructed.
NoDaemon == [built |-> FALSE, strict_ref_counts |-> None, heartbeat |-> None]

\* The first field of `fields`, from position i on, that is still None in b;
\* None when all are set.  build() checks one field after the other with
\* ok_or_else(..)? and returns at the first that is missing.
RECURSIVE FirstMissing(_, _, _)
FirstMissing(b, fields, i) ==
    IF i > Len(fields) THEN None
    ELSE IF b[fields[i]] = None THEN fields[i]
    ELSE FirstMissing(b, fields, i + 1)

\* build() with the last check, that of strict_ref_counts, left out.
BuildChecksWithoutStrictRefCounts == SubSeq(RequiredFields, 1, Len(RequiredFields) - 1)

\* The checks build() makes.
BuildChecks == RequiredFields

\* A with_* setter: stores Some(value) in its field and returns the builder.
WithField(f, v) ==
    /\ buildResult = "none"
    /\ builder' = [builder EXCEPT ![f] = v]
    /\ UNCHANGED << buildResult, daemon, health, libVars, network_endpoints,
                    self_initial_peers, options, features >>
    /\ UNCHANGED << mainVars, transportVars, svcVars, listenerVars, alive, shutdownVars >>

\* SplinterDaemonBuilder::build.
Build ==
    /\ buildResult = "none"
    /\ LET missing == FirstMissing(builder, BuildChecks, 1) IN
         IF missing # None
         THEN /\ buildResult' = "MissingRequiredField"
              /\ daemon' = daemon
              /\ pc' = pc
         ELSE /\ buildResult' = "Ok"
              /\ daemon' = [built |-> TRUE,
                            strict_ref_counts |-> builder["strict_ref_counts"],
                            heartbeat |-> builder["heartbeat"]]
              /\ pc' = "storage"
    /\ UNCHANGED << builder, health, libVars, network_endpoints,
                    self_initial_peers, options, features, result, failedStep, startVars >>
    /\ UNCHANGED << transportVars, svcVars, listenerVars, alive, shutdownVars >>

(***************************************************************************)
(* SplinterDaemon::start: startup                                          *)
(***************************************************************************)

\* The listeners start() pushes on internal_service_listeners, in order.
InternalListenEndpoints ==
    IF health
    THEN << "inproc://admin-service", "inproc://orchestator", "inproc://health_service" >>
    ELSE << "inproc://admin-service", "inproc://orchestator" >>

\* The endpoint start() connects the health service to.
HealthConnectEndpoint == "inproc://health_service"

\* The (uri, identity) pairs start() hands to InprocAuthorizer::new.
InprocIds ==
    << << "inproc://orchestator", << "orchestator", node_id >> >>,
       << "inproc://admin-service", << "admin", node_id >> >> >>
    \o (IF health
        THEN << << "inproc://health-service", << "health", node_id >> >> >>
        ELSE << >>)

\* A From<ListenError> that yields the variant the neighbouring steps use.
FromListenErrorAsNetworkError == "NetworkError"

\* impl From<ListenError> for StartError
FromListenError == "TransportError"

\* start() returns Err(err) from the step it is at.
Return(err) ==
    /\ pc' = "returned"
    /\ result' = err
    /\ failedStep' = pc
    /\ peer_refs' = << >>
    /\ UNCHANGED << admin_service_store, auth_configs, connect_errors >>

\* start() goes on to its next step.
Goto(next) ==
    /\ pc' = next
    /\ UNCHANGED << result, failedStep, startVars >>

\* Path::new(dir).join(file)
PathJoin(dir, file) == << dir, file >>

\* cfg(any(feature = "database", feature = "auth", ..)): start() makes a
\* store_factory from db_url.
NeedsStoreFactory == features # {}

\* db_url as start() uses it: self.db_url with feature "database", and
\* "memory" without.
DbUrl == IF "database" \in features THEN options.db_url ELSE "memory"

\* A start() whose "memory" arm takes the admin service store of the
\* store_factory made from db_url.
AdminServiceStoreOfDbUrlFactory(storage, made) ==
    CASE storage = "yaml" ->
           [kind |-> "yaml", factory |-> 0,
            files |-> << PathJoin(state_dir, "circuits.yaml"),
                         PathJoin(state_dir, "circuit_proposals.yaml") >>,
            factories |-> made]
      [] storage = "memory" ->
           [kind |-> "memory", factory |-> 1, files |-> << >>,
            factories |-> IF made = << >> THEN << "memory" >> ELSE made]
      [] storage = None /\ "database" \in features ->
           [kind |-> "database", factory |-> 1, files |-> << >>, factories |-> made]
      [] OTHER -> NoStore

\* The admin service store start() chooses for storage type `storage`,
\* `made` being the store factories made so far: the YAML store on the two
\* files under state_dir; for "memory" the store of a store factory made
\* then and there from "memory"; with no storage type and feature
\* "database" the store of store_factory; NoStore when start() returns a
\* StorageError instead.
AdminServiceStore(storage, made) ==
    CASE storage = "yaml" ->
           [kind |-> "yaml", factory |-> 0,
            files |-> << PathJoin(state_dir, "circuits.yaml"),
                         PathJoin(state_dir, "circuit_proposals.yaml") >>,
            factories |-> made]
      [] storage = "memory" ->
           [kind |-> "memory", factory |-> Len(made) + 1, files |-> << >>,
            factories |-> Append(made, "memory")]
      [] storage = None /\ "database" \in features ->
           [kind |-> "database", factory |-> 1, files |-> << >>, factories |-> made]
      [] OTHER -> NoStore

\* What may fail while the stores are set up: create_store_factory (the URL
\* does not parse, the factory cannot be made) and YamlAdminServiceStore::new.
StorageFailures == { "none", "create_store_factory", "YamlAdminServiceStore::new" }

\* Storage setup: db_url, store_factory and admin_service_store.
SetupStorage ==
    /\ pc = "storage"
    /\ \E fail \in StorageFailures :
         LET made == IF NeedsStoreFactory THEN << DbUrl >> ELSE << >>
             store == AdminServiceStore(options.storage_type, made)
         IN  IF \/ "database" \in features /\ options.db_url = None
                \/ NeedsStoreFactory /\ fail = "create_store_factory"
                \/ store.kind = "none"
                \/ store.kind = "yaml" /\ fail = "YamlAdminServiceStore::new"
                \/ store.kind = "memory" /\ fail = "create_store_factory"
             THEN Return("StorageError")
             ELSE /\ admin_service_store' = store
                  /\ pc' = "listen_network"
                  /\ UNCHANGED << result, failedStep, auth_configs, peer_refs,
                                  connect_errors >>
    /\ UNCHANGED << builderVars, health, libVars, transportVars, svcVars, listenerVars,
                    alive, shutdownVars >>

\* transport.listen(endpoint) for every network endpoint, collected into a
\* Result: the first endpoint that cannot be bound aborts, and the listeners
\* bound before it are dropped with the error.
ListenNetwork ==
    /\ pc = "listen_network"
    /\ \/ /\ network_listeners' = { network_endpoints[i] : i \in 1..Len(network_endpoints) }
          /\ Goto("listen_internal")
       \/ /\ network_listeners' = {}
          /\ Return("TransportError")
    /\ UNCHANGED << builderVars, health, libVars, internal_service_listeners, inproc_ids,
                    connected, pending, svcVars, listenerVars, alive, shutdownVars >>

\* internal_service_listeners.push(transport.listen(uri)?) for each internal
\* endpoint; k is the endpoint whose listen fails (0: none).
ListenInternal ==
    /\ pc = "listen_internal"
    /\ \E k \in 0..Len(InternalListenEndpoints) :
          IF k = 0
          THEN /\ internal_service_listeners' = InternalListenEndpoints
               /\ Goto("authorizers")
          ELSE /\ internal_service_listeners' = << >>
               /\ Return(FromListenError)
    /\ UNCHANGED << builderVars, health, libVars, network_listeners, inproc_ids,
                    connected, pending, svcVars, listenerVars, alive, shutdownVars >>

\* AuthorizationManager::new, inproc_ids, InprocAuthorizer::new, Authorizers.
CreateAuthorizers ==
    /\ pc = "authorizers"
    /\ \/ /\ inproc_ids' = InprocIds
          /\ Goto("connection_manager")
       \/ /\ inproc_ids' = inproc_ids
          /\ Return("NetworkError")
    /\ UNCHANGED << builderVars, health, libVars, network_listeners,
                    internal_service_listeners, connected, pending, svcVars,
                    listenerVars, alive, shutdownVars >>

\* A builder's start()/build()/new that starts component c, or fails with err.
StartComponent(at, c, next, err) ==
    /\ pc = at
    /\ \/ /\ alive' = alive \cup {c}
          /\ Goto(next)
       \/ /\ alive' = alive
          /\ Return(err)
    /\ UNCHANGED << builderVars, health, libVars, transportVars, svcVars, listenerVars,
                    shutdownVars >>

\* ConnectionManager::builder() started with a heartbeat interval of its
\* own, not the daemon's.
StartConnectionManagerWithFixedHeartbeat ==
    /\ pc = "connection_manager"
    /\ \/ /\ alive' = alive \cup {"connection_manager"}
          /\ hb_interval' = 1
          /\ Goto("peer_manager")
       \/ /\ UNCHANGED << alive, hb_interval >>
          /\ Return("NetworkError")
    /\ UNCHANGED << builderVars, health, pm_strict, peerTableVars, netVars,
                    otherVars, transportVars, svcVars, listenerVars,
                    shutdownVars >>

\* ConnectionManager::builder().with_authorizer(..).with_matrix_life_cycle(..)
\*     .with_matrix_sender(..).with_heartbeat_interval(self.heartbeat).start()
StartConnectionManager ==
    /\ pc = "connection_manager"
    /\ \/ /\ alive' = alive \cup {"connection_manager"}
          /\ hb_interval' = Seconds(daemon.heartbeat)
          /\ Goto("peer_manager")
       \/ /\ UNCHANGED << alive, hb_interval >>
          /\ Return("NetworkError")
    /\ UNCHANGED << builderVars, health, pm_strict, peerTableVars, netVars,
                    otherVars, transportVars, svcVars, listenerVars,
                    shutdownVars >>

\* PeerManager::builder() started without with_strict_ref_counts: the peer
\* manager runs with the builder's default, lenient counting.
StartPeerManagerWithoutStrictRefCounts ==
    /\ pc = "peer_manager"
    /\ \/ /\ alive' = alive \cup {"peer_manager"}
          /\ pm_strict' = "false"
          /\ Goto("listen_for_services")
       \/ /\ UNCHANGED << alive, pm_strict >>
          /\ Return("NetworkError")
    /\ UNCHANGED << builderVars, health, hb_interval, peerTableVars, netVars,
                    otherVars, transportVars, svcVars, listenerVars,
                    shutdownVars >>

\* PeerManager::builder().with_connector(..).with_identity(..)
\*     .with_strict_ref_counts(self.strict_ref_counts).start()
StartPeerManager ==
    /\ pc = "peer_manager"
    /\ \/ /\ alive' = alive \cup {"peer_manager"}
          /\ pm_strict' = daemon.strict_ref_counts
          /\ Goto("listen_for_services")
       \/ /\ UNCHANGED << alive, pm_strict >>
          /\ Return("NetworkError")
    /\ UNCHANGED << builderVars, health, hb_interval, peerTableVars, netVars,
                    otherVars, transportVars, svcVars, listenerVars,
                    shutdownVars >>

\* A listen_for_services that runs the accept loop itself, without a thread
\* of its own: start() goes on when the loop is done.
ListenForServicesWithoutThread ==
    /\ pc = "listen_for_services"
    /\ IF svcPc = "unspawned"
       THEN /\ svcPc' = internal_service_listeners[1]
            /\ UNCHANGED << pc, result, failedStep, startVars >>
       ELSE /\ svcPc = "exited"
            /\ svcPc' = svcPc
            /\ Goto("connect_orchestrator")
    /\ UNCHANGED << builderVars, health, libVars, transportVars, inbound, svcResult,
                    svc_log,
                    listenerVars, alive, shutdownVars >>

\* Self::listen_for_services(..): spawns the service-listener thread, which
\* starts at the first internal listener.
ListenForServices ==
    /\ pc = "listen_for_services"
    /\ svcPc' = internal_service_listeners[1]
    /\ Goto("connect_orchestrator")
    /\ UNCHANGED << builderVars, health, libVars, transportVars, inbound, svcResult,
                    svc_log,
                    listenerVars, alive, shutdownVars >>

\* service_transport.connect(uri): on success a connection waits at the
\* listener of uri until it is accepted.
Connect(at, uri, next, err) ==
    /\ pc = at
    /\ \/ /\ connected' = connected \cup {uri}
          /\ pending' = pending \cup {uri}
          /\ Goto(next)
       \/ /\ UNCHANGED << connected, pending >>
          /\ Return(err)
    /\ UNCHANGED << builderVars, health, libVars, network_listeners,
                    internal_service_listeners, inproc_ids, svcVars,
                    listenerVars, alive, shutdownVars >>

ConnectOrchestrator ==
    Connect("connect_orchestrator", "inproc://orchestator", "connect_admin",
            "TransportError")

ConnectAdmin ==
    Connect("connect_admin", "inproc://admin-service",
            IF health THEN "connect_health" ELSE "interconnect",
            "AdminServiceError")

ConnectHealth ==
    /\ health
    /\ Connect("connect_health", HealthConnectEndpoint, "interconnect",
               "HealthServiceError")

\* PeerInterconnectBuilder::new()...build()
BuildInterconnect ==
    StartComponent("interconnect", "interconnect", "circuit_loop", "NetworkError")

\* A start() that builds the network dispatch loop where the circuit
\* dispatch loop is to be built.
BuildNetworkDispatchLoopFirst ==
    StartComponent("circuit_loop", "network_loop", "network_loop", "NetworkError")

\* set_up_circuit_dispatcher and the circuit DispatchLoopBuilder...build()
BuildCircuitDispatchLoop ==
    StartComponent("circuit_loop", "circuit_loop", "network_loop", "NetworkError")

\* set_up_network_dispatcher and the network DispatchLoopBuilder...build()
BuildNetworkDispatchLoop ==
    StartComponent("network_loop", "network_loop", "spawn_listeners", "NetworkError")

\* thread::spawn of one accept loop per network listener.
SpawnNetworkListeners ==
    /\ pc = "spawn_listeners"
    /\ listenerState' = [e \in EndpointSet |->
                            IF e \in network_listeners THEN "accepting"
                            ELSE listenerState[e]]
    /\ Goto("initial_peers")
    /\ UNCHANGED << builderVars, health, libVars, transportVars, svcVars, accepted,
                    lastAccept, add_errors, events, alive, shutdownVars >>

\* The peer table after peer_connector.add_unidentified_peer(eps[j]) for
\* every j from i on that is in ok: each is acquired under its endpoint.
RECURSIVE AddUnidentifiedPeers(_, _, _, _)
AddUnidentifiedPeers(table, eps, ok, i) ==
    IF i > Len(eps) THEN table
    ELSE AddUnidentifiedPeers(
             IF i \in ok
             THEN IF eps[i] \in DOMAIN table
                  THEN [table EXCEPT ![eps[i]].n = @ + 1]
                  ELSE [x \in DOMAIN table \cup {eps[i]} |->
                          IF x = eps[i]
                          THEN [n |-> 1, endpoints |-> {eps[i]}, connection |-> "active"]
                          ELSE table[x]]
             ELSE table,
             eps, ok, i + 1)

\* A start() that lets go of every PeerRef it is given.
PeerRefsNotKept(eps, ok, i) == << >>

\* peer_refs after the loop over eps from position i on: the PeerRef of
\* every add that returned Ok, in order.
RECURSIVE PeerRefsPushed(_, _, _)
PeerRefsPushed(eps, ok, i) ==
    IF i > Len(eps) THEN << >>
    ELSE (IF i \in ok THEN << eps[i] >> ELSE << >>) \o PeerRefsPushed(eps, ok, i + 1)

\* The loop over self.initial_peers: add_unidentified_peer for each; Ok
\* pushes the PeerRef on peer_refs, Err is logged.  ok: the positions of
\* the peers whose add succeeds.
AddInitialPeers ==
    /\ pc = "initial_peers"
    /\ \E ok \in SUBSET (1..Len(self_initial_peers)) :
         /\ ("peer_manager" \notin alive \/ pm_fatal) => ok = {}
         /\ peers' = AddUnidentifiedPeers(peers, self_initial_peers, ok, 1)
         /\ live_refs' = [k \in DOMAIN live_refs |->
                            live_refs[k]
                            + Cardinality({ i \in ok : self_initial_peers[i] = k })]
         /\ peer_refs' = PeerRefsPushed(self_initial_peers, ok, 1)
         /\ connect_errors' = (1..Len(self_initial_peers)) \ ok
    /\ pc' = "orchestrator"
    /\ UNCHANGED << result, failedStep, admin_service_store, auth_configs >>
    /\ UNCHANGED << builderVars, health, pm_strict, hb_interval, pm_fatal, pm_logged,
                    pm_last, netVars, otherVars, transportVars, svcVars,
                    listenerVars, alive, shutdownVars >>

\* ServiceOrchestrator::new(..)?
CreateOrchestrator ==
    StartComponent("orchestrator", "orchestrator", "registry", "OrchestratorError")

\* create_registry(..)?
CreateRegistry ==
    /\ pc = "registry"
    /\ \/ Goto("admin_service")
       \/ Return("RegistryError")
    /\ UNCHANGED << builderVars, health, libVars, transportVars, svcVars, listenerVars,
                    alive, shutdownVars >>

\* AdminService::new(..): also yields admin_notification_join, the handle of
\* the thread receiving the peer manager's notifications.
CreateAdminService ==
    StartComponent("admin_service", "admin_notification", "auth_configs",
                   "AdminServiceError")

\* The OAuth providers start() knows, and those of them whose OAuthConfig
\* takes the OpenID discovery document URL.
OAuthProviders == { "azure", "github", "google", "openid" }
OpenIdProviders == { "azure", "openid" }

\* An any_oauth_args_provided that also looks at oauth_openid_url.
AnyOAuthArgOrOpenIdUrlProvided(o) ==
    \/ o.oauth_provider # None
    \/ o.oauth_client_id # None
    \/ o.oauth_client_secret # None
    \/ o.oauth_redirect_url # None
    \/ o.oauth_openid_url # None

\* any_oauth_args_provided
AnyOAuthArgsProvided(o) ==
    \/ o.oauth_provider # None
    \/ o.oauth_client_id # None
    \/ o.oauth_client_secret # None
    \/ o.oauth_redirect_url # None

\* The AuthConfig::OAuth start() makes of the settings o, or the message of
\* the RestApiError it returns (error = "": none).  The four settings are
\* required in this order, then the provider is matched.
OAuthConfig(o) ==
    LET Err(msg) == [error |-> msg, kind |-> "none", provider |-> None,
                     oauth_openid_url |-> None]
        Ok(url) == [error |-> "", kind |-> "OAuth", provider |-> o.oauth_provider,
                    oauth_openid_url |-> url]
    IN  IF o.oauth_provider = None
        THEN Err("missing OAuth provider configuration")
        ELSE IF o.oauth_client_id = None
        THEN Err("missing OAuth client ID configuration")
        ELSE IF o.oauth_client_secret = None
        THEN Err("missing OAuth client secret configuration")
        ELSE IF o.oauth_redirect_url = None
        THEN Err("missing OAuth redirect URL configuration")
        ELSE IF o.oauth_provider \in OpenIdProviders
        THEN IF o.oauth_openid_url = None
             THEN Err("missing OAuth OpenID discovery document URL configuration")
             ELSE Ok(o.oauth_openid_url)
        ELSE IF o.oauth_provider \in OAuthProviders
        THEN Ok(None)
        ELSE Err("invalid OAuth provider")

\* AuthConfig::Cylinder, which start() always adds with feature "auth".
CylinderAuthConfig ==
    [error |-> "", kind |-> "Cylinder", provider |-> None, oauth_openid_url |-> None]

\* The block under cfg(feature = "auth"): auth_configs for the REST API
\* builder.  Without the feature there is no such block.
ConfigureAuth ==
    /\ pc = "auth_configs"
    /\ LET next == IF health THEN "health_service" ELSE "rest_api" IN
         IF "auth" \notin features
         THEN Goto(next)
         ELSE IF ~AnyOAuthArgsProvided(options)
         THEN /\ auth_configs' = << CylinderAuthConfig >>
              /\ pc' = next
              /\ UNCHANGED << result, failedStep, admin_service_store, peer_refs,
                              connect_errors >>
         ELSE IF OAuthConfig(options).error # ""
         THEN Return("RestApiError")
         ELSE /\ auth_configs' = << CylinderAuthConfig, OAuthConfig(options) >>
              /\ pc' = next
              /\ UNCHANGED << result, failedStep, admin_service_store, peer_refs,
                              connect_errors >>
    /\ UNCHANGED << builderVars, health, libVars, transportVars, svcVars, listenerVars,
                    alive, shutdownVars >>

\* start_health_service(..)? (feature "health")
StartHealthService ==
    /\ health
    /\ StartComponent("health_service", "health_processor", "rest_api",
                      "HealthServiceError")

\* rest_api_builder.build()?.run()?
RunRestApi ==
    StartComponent("rest_api", "rest_api", "start_admin", "RestApiError")

\* Self::start_admin_service(..)?
StartAdminService ==
    StartComponent("start_admin", "admin_processor", "set_handler",
                   "AdminServiceError")

\* ctrlc::set_handler(..)
SetCtrlcHandler ==
    /\ pc = "set_handler"
    /\ hpc' = "armed"
    /\ Goto(IF health THEN "join_health" ELSE "join_rest_api")
    /\ UNCHANGED << builderVars, health, libVars, transportVars, svcVars, listenerVars,
                    alive, signalled, running >>

(***************************************************************************)
(* The Ctrl-C handler                                                      *)
(***************************************************************************)

\* The closure with the REST API shut down before the admin service.
HandlerStatementsRestApiFirst ==
    << "store_running", "rest_api", "admin_service", "circuit_loop",
       "network_loop", "registry", "interconnect" >>

\* The statements of the closure given to ctrlc::set_handler, in order:
\* r.store(false), then one shutdown call per entry.
HandlerStatements ==
    << "store_running", "admin_service", "rest_api", "circuit_loop",
       "network_loop", "registry", "interconnect" >>

\* The position of x in sequence s (0: not in it).
IndexOf(s, x) ==
    IF \E i \in 1..Len(s) : s[i] = x
    THEN CHOOSE i \in 1..Len(s) : s[i] = x
    ELSE 0

\* The entry after x in s, or `last` when x is the last one.
After(s, x, last) ==
    IF IndexOf(s, x) < Len(s) THEN s[IndexOf(s, x) + 1] ELSE last

\* start() has not returned: once it returns, main() ends and the process,
\* with every thread in it, exits.
ProcessRunning == pc # "returned"

\* SIGINT is delivered: the handler thread starts running the closure.  (A
\* further SIGINT runs the closure again; every call in it is idempotent.)
Sigint ==
    /\ ProcessRunning
    /\ hpc = "armed"
    /\ hpc' = HandlerStatements[1]
    /\ UNCHANGED << builderVars, health, libVars, mainVars, transportVars, svcVars,
                    listenerVars, alive, signalled, running >>

\* One statement of the closure.
HandlerStep ==
    /\ ProcessRunning
    /\ IndexOf(HandlerStatements, hpc) > 0
    /\ IF hpc = "store_running"
       THEN /\ running' = FALSE
            /\ signalled' = signalled
       ELSE /\ signalled' = signalled \cup {hpc}
            /\ running' = running
    /\ hpc' = After(HandlerStatements, hpc, "done")
    /\ UNCHANGED << builderVars, health, libVars, mainVars, transportVars, svcVars,
                    listenerVars, alive >>

(***************************************************************************)
(* The components' worker threads                                          *)
(***************************************************************************)

\* When the workers of component c stop: once its own shutdown has been
\* signalled.  The orchestrator is owned by the admin service and stops
\* with it, the health service processor watches `running`, and the admin
\* notification thread ends when the peer manager it listens to is gone.
ExitTrigger(c) ==
    CASE c = "rest_api"           -> "rest_api" \in signalled
      [] c = "admin_processor"    -> "admin_service" \in signalled
      [] c = "orchestrator"       -> "admin_service" \in signalled
      [] c = "health_processor"   -> ~running
      [] c = "admin_notification" -> "peer_manager" \in signalled
                                     /\ "peer_manager" \notin alive
      [] OTHER                    -> c \in signalled

\* The workers of component c exit.
WorkerExit(c) ==
    /\ ProcessRunning
    /\ c \in alive
    /\ ExitTrigger(c)
    /\ alive' = alive \ {c}
    /\ UNCHANGED << builderVars, health, libVars, mainVars, transportVars, svcVars,
                    listenerVars, shutdownVars >>

(***************************************************************************)
(* SplinterDaemon::start: shutdown                                         *)
(***************************************************************************)

\* A join that returns without waiting.
JoinedWithoutWaiting(c) == TRUE

\* A blocking join / await_shutdown on component c returns once c's workers
\* have exited.
Joined(c) == c \notin alive

\* handle.join() / join_all() / await_shutdown(): blocks until c has exited.
Join(at, c, next) ==
    /\ pc = at
    /\ Joined(c)
    /\ Goto(next)
    /\ UNCHANGED << builderVars, health, libVars, transportVars, svcVars, listenerVars,
                    alive, shutdownVars >>

\* <component>_shutdown.shutdown(): fires the signaler of c.
Signal(at, c, next) ==
    /\ pc = at
    /\ signalled' = signalled \cup {c}
    /\ Goto(next)
    /\ UNCHANGED << builderVars, health, libVars, transportVars, svcVars, listenerVars,
                    alive, running, hpc >>

\* health_service_processor_join_handle.join_all() (feature "health")
JoinHealth ==
    /\ health
    /\ Join("join_health", "health_processor", "join_rest_api")

\* rest_api_join_handle.join()
JoinRestApi == Join("join_rest_api", "rest_api", "join_service_processor")

\* service_processor_join_handle.join_all()
JoinServiceProcessor ==
    Join("join_service_processor", "admin_processor", "join_orchestrator")

\* orchestator_join_handles.join_all()
JoinOrchestrator ==
    Join("join_orchestrator", "orchestrator", "peer_manager_shutdown")

\* start() going on to await_shutdown without firing the signaler.
ShutdownPeerManagerNotSignalled ==
    /\ pc = "peer_manager_shutdown"
    /\ Goto("peer_manager_await")
    /\ UNCHANGED << builderVars, health, libVars, transportVars, svcVars, listenerVars,
                    alive, shutdownVars >>

\* peer_manager_shutdown.shutdown()
ShutdownPeerManager ==
    Signal("peer_manager_shutdown", "peer_manager", "peer_manager_await")

\* peer_manager.await_shutdown()
AwaitPeerManager ==
    Join("peer_manager_await", "peer_manager", "join_admin_notification")

\* admin_notification_join.join()
JoinAdminNotification ==
    Join("join_admin_notification", "admin_notification",
         "connection_manager_shutdown")

\* connection_manager_shutdown.shutdown()
ShutdownConnectionManager ==
    Signal("connection_manager_shutdown", "connection_manager",
           "connection_manager_await")

\* connection_manager.await_shutdown()
AwaitConnectionManager ==
    Join("connection_manager_await", "connection_manager", "mesh_shutdown")

\* self.mesh.shutdown_signaler().shutdown(); Ok(())
ShutdownMesh ==
    /\ pc = "mesh_shutdown"
    /\ signalled' = signalled \cup {"mesh"}
    /\ pc' = "returned"
    /\ result' = "Ok"
    /\ peer_refs' = << >>
    /\ UNCHANGED << admin_service_store, auth_configs, connect_errors >>
    /\ UNCHANGED << builderVars, health, libVars, failedStep, transportVars, svcVars,
                    listenerVars, alive, running, hpc >>

(***************************************************************************)
(* The service-listener thread (listen_for_services)                       *)
(***************************************************************************)

\* A thread that goes on to the next listener after an accept error.
AfterAcceptErrorNextListener(next) == next

\* Where the thread goes after Some(Err(err)): the closure returns.
AfterAcceptError(next) == "exited"

\* listener.incoming().next() on the internal listener svcPc, and the match
\* on what it yields.
SvcAccept ==
    /\ ProcessRunning
    /\ svcPc \notin {"unspawned", "exited"}
    /\ LET next == After(internal_service_listeners, svcPc, "exited") IN
         \/ \* Some(Ok(connection)): add_inbound_connection, an error is logged
            /\ svcPc \in pending
            /\ pending' = pending \ {svcPc}
            /\ \/ /\ inbound' = inbound \cup {svcPc}
                  /\ svc_log' = Append(svc_log, << svcPc, "added" >>)
                  /\ events' = events
               \/ /\ events < MaxEvents
                  /\ inbound' = inbound
                  /\ svc_log' = Append(svc_log, << svcPc, "add_failed" >>)
                  /\ events' = events + 1
            /\ svcPc' = next
            /\ svcResult' = IF next = "exited" THEN "Ok" ELSE svcResult
         \/ \* Some(Err(err)): return Err(StartError::TransportError(..))
            /\ events < MaxEvents
            /\ events' = events + 1
            /\ svcPc' = AfterAcceptError(next)
            /\ svcResult' = IF AfterAcceptError(next) = "exited"
                             THEN "TransportError" ELSE svcResult
            /\ svc_log' = Append(svc_log, << svcPc, "accept_error" >>)
            /\ UNCHANGED << pending, inbound >>
         \/ \* None: on to the next listener
            /\ events < MaxEvents
            /\ events' = events + 1
            /\ svcPc' = next
            /\ svcResult' = IF next = "exited" THEN "Ok" ELSE svcResult
            /\ svc_log' = Append(svc_log, << svcPc, "none" >>)
            /\ UNCHANGED << pending, inbound >>
    /\ UNCHANGED << builderVars, health, libVars, mainVars, network_listeners,
                    internal_service_listeners, inproc_ids, connected,
                    listenerState, accepted, lastAccept, add_errors, alive,
                    shutdownVars >>

(***************************************************************************)
(* The network listener threads                                            *)
(***************************************************************************)

\* What the accept loop does with connection_result r: TRUE when it goes on
\* to the next incoming connection without handing anything on.
AcceptErrorContinues(r) == r \in {"ProtocolError", "IoError"}

\* Bound: how many events the environment feeds the network listener
\* threads of a daemon that listens on every endpoint of EndpointSet.
MaxAccepts == 3

\* An accept loop that goes on to the next connection when
\* add_inbound_connection returns an error.
ContinueAfterAddError(st, e) == st

\* `break` when add_inbound_connection returns an error: the thread of
\* endpoint e leaves its accept loop and ends.
BreakAfterAddError(st, e) == [st EXCEPT ![e] = "exited"]

\* One iteration of `for connection_result in network_listener.incoming()`
\* in the thread of endpoint e, the environment having fed the threads
\* fewer than cap events.
ListenerAcceptWithin(e, cap) ==
    /\ ProcessRunning
    /\ listenerState[e] = "accepting"
    /\ \/ \* Ok(connection)
          /\ events < cap
          /\ events' = events + 1
          /\ lastAccept' = [lastAccept EXCEPT ![e] = "Ok"]
          /\ \/ \* add_inbound_connection succeeds
                /\ accepted' = [accepted EXCEPT ![e] = @ + 1]
                /\ UNCHANGED << listenerState, add_errors >>
             \/ \* add_inbound_connection fails: break
                /\ listenerState' = BreakAfterAddError(listenerState, e)
                /\ add_errors' = [add_errors EXCEPT ![e] = @ + 1]
                /\ accepted' = accepted
       \/ \* Err(AcceptError::..)
          /\ events < cap
          /\ events' = events + 1
          /\ \E r \in {"ProtocolError", "IoError"} :
               /\ lastAccept' = [lastAccept EXCEPT ![e] = r]
               /\ listenerState' =
                    IF AcceptErrorContinues(r) THEN listenerState
                    ELSE [listenerState EXCEPT ![e] = "exited"]
          /\ UNCHANGED << accepted, add_errors >>
    /\ UNCHANGED << builderVars, health, libVars, mainVars, transportVars, svcVars,
                    alive, shutdownVars >>

\* One iteration of the accept loop of endpoint e.
ListenerAccept(e) == ListenerAcceptWithin(e, MaxEvents)

(***************************************************************************)
(* The peer manager (libsplinter): the peer table and its reference counts *)
(***************************************************************************)

\* Bound: how many PeerRefs are live at one time.
MaxRefs == 3

\* The identities of remote nodes and the endpoints they are reached at.
PeerIds == { "B", "C" }
PeerEndpoints == { "tcp://b:8044", "tcp://b:8045", "tcp://c:8044" }

\* The identity the node at endpoint e proves in the handshake.
IdentityOf(e) == IF e = "tcp://c:8044" THEN "C" ELSE "B"

\* What the peer table is keyed by: an identity, or, for a peer that is not
\* yet identified, its endpoint.
PeerKeys == PeerIds \cup PeerEndpoints

\* The sum of f over the keys in S.
RECURSIVE SumOver(_, _)
SumOver(f, S) ==
    IF S = {} THEN 0
    ELSE LET k == CHOOSE x \in S : TRUE IN f[k] + SumOver(f, S \ {k})

\* The reference count the peer manager holds for key k.
refcount(k) == IF k \in DOMAIN peers THEN peers[k].n ELSE 0

\* The peer table as the set of peers with each peer's reference count.
PeerTable == [k \in DOMAIN peers |-> peers[k].n]

\* Acquiring a peer that never counts the reference it hands out for a peer
\* already in the table.
AcquireWithoutIncrement(table, k, e) ==
    IF k \in DOMAIN table
    THEN [table EXCEPT ![k].endpoints = @ \cup {e}]
    ELSE [x \in DOMAIN table \cup {k} |->
            IF x = k THEN [n |-> 1, endpoints |-> {e}, connection |-> "active"]
            ELSE table[x]]

\* Acquire (or increment) the peer keyed k, reached at endpoint e: a peer
\* already in the table takes the endpoint as a candidate and one more
\* reference; a new peer starts with one reference and a connection.
Acquire(table, k, e) ==
    IF k \in DOMAIN table
    THEN [table EXCEPT ![k].n = @ + 1, ![k].endpoints = @ \cup {e}]
    ELSE [x \in DOMAIN table \cup {k} |->
            IF x = k THEN [n |-> 1, endpoints |-> {e}, connection |-> "active"]
            ELSE table[x]]

\* Releasing a reference that tears the peer down whatever its count.
ReleaseRemovesPeer(table, k) == [x \in DOMAIN table \ {k} |-> table[x]]

\* Releasing a reference that leaves a peer with no reference in the table.
ReleaseKeepsPeerAtZero(table, k) == [table EXCEPT ![k].n = @ - 1]

\* Release one reference of the peer keyed k (its count is positive): the
\* count goes down by one, and a peer whose count reaches 0 is torn down.
Release(table, k) ==
    IF table[k].n > 1
    THEN [table EXCEPT ![k].n = @ - 1]
    ELSE [x \in DOMAIN table \ {k} |-> table[x]]

\* The peer manager is started and has not aborted.
PmRunning ==
    /\ ProcessRunning
    /\ "peer_manager" \in alive
    /\ ~pm_fatal

\* add_peer(endpoint) -> PeerRef: the identity is asserted up front.
add_peer(e) ==
    /\ PmRunning
    /\ SumOver(live_refs, PeerKeys) < MaxRefs
    /\ peers' = Acquire(peers, IdentityOf(e), e)
    /\ live_refs' = [live_refs EXCEPT ![IdentityOf(e)] = @ + 1]
    /\ pm_last' = [op |-> "add_peer", key |-> IdentityOf(e), before |-> PeerTable]
    /\ UNCHANGED << pm_strict, pm_fatal, pm_logged >>

\* add_unidentified_peer(endpoint) -> PeerRef: keyed by the endpoint until
\* the handshake tells the identity.
add_unidentified_peer(e) ==
    /\ PmRunning
    /\ SumOver(live_refs, PeerKeys) < MaxRefs
    /\ peers' = Acquire(peers, e, e)
    /\ live_refs' = [live_refs EXCEPT ![e] = @ + 1]
    /\ pm_last' = [op |-> "add_unidentified_peer", key |-> e, before |-> PeerTable]
    /\ UNCHANGED << pm_strict, pm_fatal, pm_logged >>

\* What the peer manager does with a release of key k: with a positive
\* count it releases one reference; at count zero the release is fatal
\* under strict ref counts, and logged and clamped at 0 otherwise.
HandleRelease(k) ==
    IF refcount(k) > 0
    THEN /\ peers' = Release(peers, k)
         /\ UNCHANGED << pm_fatal, pm_logged >>
    ELSE /\ peers' = peers
         /\ pm_fatal' = (pm_strict = "true")
         /\ pm_logged' = (pm_logged \/ pm_strict # "true")

\* A live PeerRef for key k is dropped: its drop releases the reference.
DropPeerRef(k) ==
    /\ PmRunning
    /\ live_refs[k] > 0
    /\ live_refs' = [live_refs EXCEPT ![k] = @ - 1]
    /\ HandleRelease(k)
    /\ pm_last' =
         IF pm_last.op = "add_peer" /\ pm_last.key = k
         THEN [op |-> "add_peer_drop", key |-> k, before |-> pm_last.before]
         ELSE [op |-> "drop", key |-> k, before |-> PeerTable]
    /\ UNCHANGED pm_strict

\* A release of key k arrives, through a connector, when no reference of k
\* is counted.
ReleaseAtZero(k) ==
    /\ PmRunning
    /\ refcount(k) = 0
    /\ HandleRelease(k)
    /\ pm_last' = [op |-> "release_at_zero", key |-> k, before |-> PeerTable]
    /\ UNCHANGED << pm_strict, live_refs >>

\* The handshake of the unidentified peer at endpoint e completes: the peer
\* is re-keyed by its identity; when that identity is in the table already
\* the two merge into one, e becoming a further candidate endpoint.
IdentifyPeer(e) ==
    /\ PmRunning
    /\ e \in DOMAIN peers
    /\ LET id == IdentityOf(e) IN
         /\ peers' = [x \in (DOMAIN peers \ {e}) \cup {id} |->
                        IF x # id THEN peers[x]
                        ELSE IF id \in DOMAIN peers
                        THEN [n |-> peers[id].n + peers[e].n,
                              endpoints |-> peers[id].endpoints \cup peers[e].endpoints,
                              connection |-> peers[id].connection]
                        ELSE peers[e]]
         /\ live_refs' = [live_refs EXCEPT ![id] = @ + live_refs[e], ![e] = 0]
    /\ pm_last' = [op |-> "identify", key |-> e, before |-> PeerTable]
    /\ UNCHANGED << pm_strict, pm_fatal, pm_logged >>

\* The connection of peer k fails, or the reconnect over its candidate
\* endpoints succeeds.
PeerConnectionChange(k) ==
    /\ PmRunning
    /\ k \in DOMAIN peers
    /\ peers' = [peers EXCEPT ![k].connection =
                    IF @ = "active" THEN "absent" ELSE "active"]
    /\ UNCHANGED << pm_strict, live_refs, pm_fatal, pm_logged, pm_last >>

\* The key the peer table holds the peer of start()'s PeerRef for endpoint
\* e under: the endpoint, and the identity once the peer is identified.
KeyOf(e) == IF e \in DOMAIN peers THEN e ELSE IdentityOf(e)

\* How many of start()'s peer_refs are references of the peer keyed k.
HeldByStart(k) == Cardinality({ j \in 1..Len(peer_refs) : KeyOf(peer_refs[j]) = k })

\* A holder other than start() (the admin service) drops a PeerRef of its
\* own for key k.
DropOtherPeerRef(k) ==
    /\ live_refs[k] > HeldByStart(k)
    /\ DropPeerRef(k)

\* The peer manager's frame: its operations leave the daemon's own state.
PeerOp(A) ==
    /\ A
    /\ UNCHANGED << daemonVars, hb_interval, netVars, otherVars >>

PeerManagerOps ==
    \/ \E e \in PeerEndpoints : PeerOp(add_peer(e))
    \/ \E e \in PeerEndpoints : PeerOp(add_unidentified_peer(e))
    \/ \E k \in PeerKeys : PeerOp(DropPeerRef(k))
    \/ \E k \in PeerKeys : PeerOp(ReleaseAtZero(k))
    \/ \E e \in PeerEndpoints : PeerOp(IdentifyPeer(e))
    \/ \E k \in PeerKeys : PeerOp(PeerConnectionChange(k))

(***************************************************************************)
(* The Mesh (libsplinter): send on this node, receive on the remote node   *)
(***************************************************************************)

\* Bounds: the queue capacities of the Mesh (build() creates it with
\* Mesh::new(512, 128)), scaled down, and how many sends succeed in all.
MeshIncomingCapacity == 1
MeshOutgoingCapacity == 1
MaxSends == 2

\* The connections of this node's Mesh and the payloads sent over them.
Connections == { "c1", "c2" }
Payloads == { "ping", "pong" }

\* Putting x at the wrong end of queue q.
EnqueueAtFront(q, x) == << x >> \o q

\* A bounded channel: x joins queue q at its tail.
Enqueue(q, x) == Append(q, x)

\* The payloads of connection c in the consumer queue q, in queue order.
RECURSIVE PayloadsOf(_, _)
PayloadsOf(q, c) ==
    IF q = << >> THEN << >>
    ELSE IF Head(q)[1] = c THEN << Head(q)[2] >> \o PayloadsOf(Tail(q), c)
    ELSE PayloadsOf(Tail(q), c)

\* The ways a handshake fails.
AuthFailures ==
    { "signature mismatch", "unknown identity", "timeout", "protocol violation" }

\* An accepted connection that is put into the Mesh as it is, to be
\* authorized afterwards.
AddInboundConnectionToMesh(c) ==
    /\ mesh_conn[c] = "NEW"
    /\ mesh_conn' = [mesh_conn EXCEPT ![c] = "AUTHORIZING"]
    /\ mesh_known' = mesh_known \cup {c}
    /\ UNCHANGED << mesh_outgoing, mesh_wire, mesh_incoming, mesh_sent,
                    mesh_received, mesh_send_result, pm_known, conn_closed,
                    auth_cause >>

\* connection_connector.add_inbound_connection(connection): the listener
\* thread hands the raw connection to the connection manager, whose
\* background worker starts the authorization handshake.
AddInboundConnection(c) ==
    /\ mesh_conn[c] = "NEW"
    /\ mesh_conn' = [mesh_conn EXCEPT ![c] = "AUTHORIZING"]
    /\ UNCHANGED << mesh_outgoing, mesh_wire, mesh_incoming, mesh_sent,
                    mesh_received, mesh_send_result, authVars >>

\* The handshake of c fails: AUTH_FAILED, and the connection is closed.
HandshakeFails(c, cause) ==
    /\ mesh_conn[c] = "AUTHORIZING"
    /\ mesh_conn' = [mesh_conn EXCEPT ![c] = "AUTH_FAILED"]
    /\ conn_closed' = conn_closed \cup {c}
    /\ auth_cause' = [auth_cause EXCEPT ![c] = cause]
    /\ UNCHANGED << mesh_outgoing, mesh_wire, mesh_incoming, mesh_sent,
                    mesh_received, mesh_send_result, mesh_known, pm_known >>

\* The handshake of connection c completes and the identified connection is
\* added to the Mesh.
MeshAddConnection(c) ==
    /\ mesh_conn[c] = "AUTHORIZING"
    /\ mesh_conn' = [mesh_conn EXCEPT ![c] = "AUTHORIZED"]
    /\ mesh_known' = mesh_known \cup {c}
    /\ UNCHANGED << mesh_outgoing, mesh_wire, mesh_incoming, mesh_sent,
                    mesh_received, mesh_send_result, pm_known, conn_closed,
                    auth_cause >>

\* The connection manager's notification that c is connected reaches the
\* peer manager, its subscriber.
NotifyPeerManager(c) ==
    /\ c \in mesh_known
    /\ c \notin pm_known
    /\ pm_known' = pm_known \cup {c}
    /\ UNCHANGED << mesh_conn, mesh_outgoing, mesh_wire, mesh_incoming,
                    mesh_sent, mesh_received, mesh_send_result, mesh_known,
                    conn_closed, auth_cause >>

\* Mesh.send(id(c), p): fails with GONE when the id is unknown, blocks while
\* the outgoing queue of c is full, and enqueues otherwise.
MeshSend(c, p) ==
    /\ Len(mesh_sent["c1"]) + Len(mesh_sent["c2"]) < MaxSends
    /\ IF mesh_conn[c] # "AUTHORIZED"
       THEN /\ mesh_send_result' = "GONE"
            /\ UNCHANGED << mesh_outgoing, mesh_sent >>
       ELSE /\ Len(mesh_outgoing[c]) < MeshOutgoingCapacity
            /\ mesh_outgoing' = [mesh_outgoing EXCEPT ![c] = Enqueue(@, p)]
            /\ mesh_sent' = [mesh_sent EXCEPT ![c] = Append(@, p)]
            /\ mesh_send_result' = "Ok"
    /\ UNCHANGED << mesh_conn, mesh_wire, mesh_incoming, mesh_received, authVars >>

\* The write worker of c takes the head of the outgoing queue and writes it
\* to the connection.
MeshWrite(c) ==
    /\ mesh_conn[c] = "AUTHORIZED"
    /\ mesh_outgoing[c] # << >>
    /\ mesh_wire' = [mesh_wire EXCEPT ![c] = Enqueue(@, Head(mesh_outgoing[c]))]
    /\ mesh_outgoing' = [mesh_outgoing EXCEPT ![c] = Tail(@)]
    /\ UNCHANGED << mesh_conn, mesh_incoming, mesh_sent, mesh_received,
                    mesh_send_result, authVars >>

\* The remote read worker of c reads the next frame and puts it on the
\* remote Mesh's single consumer queue (bounded per connection).
MeshRead(c) ==
    /\ mesh_conn[c] = "AUTHORIZED"
    /\ mesh_wire[c] # << >>
    /\ Len(PayloadsOf(mesh_incoming, c)) < MeshIncomingCapacity
    /\ mesh_incoming' = Enqueue(mesh_incoming, << c, Head(mesh_wire[c]) >>)
    /\ mesh_wire' = [mesh_wire EXCEPT ![c] = Tail(@)]
    /\ UNCHANGED << mesh_conn, mesh_outgoing, mesh_sent, mesh_received,
                    mesh_send_result, authVars >>

\* Mesh.receive() on the remote side yields the head of the consumer queue.
MeshReceive ==
    /\ mesh_incoming # << >>
    /\ mesh_received' = [mesh_received EXCEPT ![Head(mesh_incoming)[1]] =
                            Append(@, Head(mesh_incoming)[2])]
    /\ mesh_incoming' = Tail(mesh_incoming)
    /\ UNCHANGED << mesh_conn, mesh_outgoing, mesh_wire, mesh_sent,
                    mesh_send_result, authVars >>

\* Connection c leaves AUTHORIZED: it is marked FAILED (no traffic for three
\* heartbeat intervals) or it is removed and CLOSED.  What was queued or on
\* the wire is gone with it.
MeshConnectionEnds(c) ==
    /\ mesh_conn[c] = "AUTHORIZED"
    /\ \E st \in {"FAILED", "CLOSED"} : mesh_conn' = [mesh_conn EXCEPT ![c] = st]
    /\ mesh_outgoing' = [mesh_outgoing EXCEPT ![c] = << >>]
    /\ mesh_wire' = [mesh_wire EXCEPT ![c] = << >>]
    /\ mesh_known' = mesh_known \ {c}
    /\ conn_closed' = conn_closed \cup {c}
    /\ UNCHANGED << mesh_incoming, mesh_sent, mesh_received, mesh_send_result,
                    pm_known, auth_cause >>

\* The Mesh's frame: its operations leave the rest of the daemon.
MeshOp(A) ==
    /\ A
    /\ UNCHANGED << daemonVars, pm_strict, hb_interval, peerTableVars,
                    dispatchVars, otherVars >>

\* The Mesh's workers and the remote consumer.
MeshDelivery ==
    \/ \E c \in Connections : MeshOp(MeshWrite(c))
    \/ \E c \in Connections : MeshOp(MeshRead(c))
    \/ MeshOp(MeshReceive)

MeshOps ==
    \/ \E c \in Connections : MeshOp(AddInboundConnection(c))
    \/ \E c \in Connections : MeshOp(MeshAddConnection(c))
    \/ \E c \in Connections : \E p \in Payloads : MeshOp(MeshSend(c, p))
    \/ \E c \in Connections : MeshOp(MeshConnectionEnds(c))
    \/ MeshDelivery

(***************************************************************************)
(* The dispatch loops and the routing table (libsplinter), as start()      *)
(* assembles them with set_up_network_dispatcher and                       *)
(* set_up_circuit_dispatcher                                               *)
(***************************************************************************)

\* Bounds: how many envelopes the interconnect delivers, and the capacity
\* of a dispatch loop's channel.
MaxEnvelopes == 2
DispatchCapacity == 2

\* The peers envelopes come from, and the circuits, services and nodes the
\* messages and the routing table are about; the circuits this node's admin
\* service accepts.
Sources == { "B", "C" }
CircuitIds == { "c1", "c2" }
AcceptedCircuitIds == { "c1" }
ServiceIds == { "s1" }
MemberSets == { {node_id}, {node_id, "B"} }

\* set_up_network_dispatcher without the set_handler of the
\* CircuitMessageHandler.
NetworkHandlersWithoutCircuit == { "NETWORK_ECHO", "NETWORK_HEARTBEAT" }

\* The message types set_up_network_dispatcher registers a handler for:
\* NetworkEchoHandler, NetworkHeartbeatHandler, CircuitMessageHandler.
NetworkHandlers == { "NETWORK_ECHO", "NETWORK_HEARTBEAT", "CIRCUIT" }

\* set_up_circuit_dispatcher without the set_handler of the
\* ServiceConnectRequestHandler.
CircuitHandlersWithoutServiceConnect ==
    { "SERVICE_DISCONNECT_REQUEST", "CIRCUIT_DIRECT_MESSAGE",
      "CIRCUIT_ERROR_MESSAGE", "ADMIN_DIRECT_MESSAGE" }

\* set_up_circuit_dispatcher without the set_handler of the
\* CircuitDirectMessageHandler.
CircuitHandlersWithoutDirectMessage ==
    { "SERVICE_CONNECT_REQUEST", "SERVICE_DISCONNECT_REQUEST",
      "CIRCUIT_ERROR_MESSAGE", "ADMIN_DIRECT_MESSAGE" }

\* The message types set_up_circuit_dispatcher registers a handler for:
\* ServiceConnectRequestHandler, ServiceDisconnectRequestHandler,
\* CircuitDirectMessageHandler, CircuitErrorHandler,
\* AdminDirectMessageHandler.
CircuitHandlers ==
    { "SERVICE_CONNECT_REQUEST", "SERVICE_DISCONNECT_REQUEST",
      "CIRCUIT_DIRECT_MESSAGE", "CIRCUIT_ERROR_MESSAGE", "ADMIN_DIRECT_MESSAGE" }

\* The circuit message types whose handlers pass a message on.
ForwardedTypes ==
    { "CIRCUIT_DIRECT_MESSAGE", "CIRCUIT_ERROR_MESSAGE", "ADMIN_DIRECT_MESSAGE" }

\* set_up_circuit_dispatcher giving every handler routing_writer.clone().
RoutingCapabilitiesWithWriterForAll(t) == { "reader", "writer" }

\* The views of the routing table set_up_circuit_dispatcher gives the
\* handler of message type t: the service connect and disconnect handlers
\* get routing_reader.clone() and routing_writer.clone(), the others a
\* reader only.
RoutingCapabilities(t) ==
    IF t \in { "SERVICE_CONNECT_REQUEST", "SERVICE_DISCONNECT_REQUEST" }
    THEN { "reader", "writer" }
    ELSE { "reader" }

\* A ServiceConnectRequestHandler built with the daemon's display name.
ServiceConnectNodeIdAsDisplayName == "display-name"

\* The node id set_up_circuit_dispatcher gives the
\* ServiceConnectRequestHandler: node_id.to_string().
ServiceConnectNodeId == node_id

\* The envelopes the interconnect delivers to the network dispatch loop: an
\* echo, a message of a type nobody knows, or a CIRCUIT message wrapping a
\* circuit message.
NoInner == [type |-> "none", circuit |-> "none", service |-> "none"]
NetworkEnvelopes ==
    [type : {"NETWORK_ECHO", "UNKNOWN"}, source : Sources, inner : {NoInner}]
    \cup
    [type : {"CIRCUIT"}, source : Sources,
     inner : [type : {"SERVICE_CONNECT_REQUEST", "SERVICE_DISCONNECT_REQUEST",
                      "CIRCUIT_DIRECT_MESSAGE"},
              circuit : CircuitIds, service : ServiceIds]]

\* The CIRCUIT envelopes of one peer, wrapping a circuit message of each of
\* the five types.
CircuitEnvelopes ==
    [type : {"CIRCUIT"}, source : {"B"},
     inner : [type : {"SERVICE_CONNECT_REQUEST", "SERVICE_DISCONNECT_REQUEST"}
                       \cup ForwardedTypes,
              circuit : CircuitIds, service : ServiceIds]]

\* The circuit message a CIRCUIT envelope wraps, as the dispatch envelope
\* of the circuit loop: its own type, the source of the wrapper.
Unwrap(e) ==
    [type |-> e.inner.type, source |-> e.source,
     circuit |-> e.inner.circuit, service |-> e.inner.service]

\* A loop that takes the newest envelope of its channel.
NextEnvelopeNewestFirst(q) == q[Len(q)]

\* The envelope a dispatch loop's worker takes from its channel: the oldest.
NextEnvelope(q) == Head(q)

\* Queue q without envelope x.
Without(q, x) == SelectSeq(q, LAMBDA y : y # x)

\* f extended (or overwritten) at key k with value v.
Extend(f, k, v) == [x \in DOMAIN f \cup {k} |-> IF x = k THEN v ELSE f[x]]

\* The routing table: both maps.
RoutingTable == [circuits |-> circuits, services |-> services]

\* (circuit, service) is in the routing table.
Routed(c, s) == << c, s >> \in DOMAIN services

\* The dispatch loops are built and the daemon is in its steady state.
LoopsRunning ==
    /\ ProcessRunning
    /\ {"network_loop", "circuit_loop", "interconnect"} \subseteq alive
    /\ hpc = "armed"

\* The interconnect hands envelope e, received from e.source, to the
\* network dispatch loop's channel; it blocks while the channel is full.
DeliverEnvelope(e) ==
    /\ LoopsRunning
    /\ Len(arrived) < MaxEnvelopes
    /\ e.source \notin disp_closed
    /\ Len(net_queue) < DispatchCapacity
    /\ arrived' = Append(arrived, e)
    /\ net_queue' = Enqueue(net_queue, Len(arrived) + 1)
    /\ UNCHANGED << circuit_queue, net_running, circuit_running, net_log,
                    circuit_log, routingVars, outbox, disp_closed >>

\* The network loop's worker takes the next envelope and invokes its handler.
NetInvoke ==
    /\ LoopsRunning
    /\ net_running = << >>
    /\ net_queue # << >>
    /\ LET i == NextEnvelope(net_queue) IN
         /\ net_running' = << i >>
         /\ net_queue' = Without(net_queue, i)
         /\ net_log' = Append(net_log, << "invoke", i >>)
    /\ UNCHANGED << arrived, circuit_queue, circuit_running, circuit_log,
                    routingVars, outbox, disp_closed >>

\* The running network handler completes.  ECHO is answered to its source;
\* a CIRCUIT message is unwrapped and sent to the circuit loop's channel
\* (the send blocks while that is full); a type nobody knows is a protocol
\* error and closes the connection; a type without handler is logged.
NetComplete ==
    /\ LoopsRunning
    /\ net_running # << >>
    /\ LET i == net_running[1]
           e == arrived[i]
       IN  /\ e.type = "CIRCUIT" /\ e.type \in NetworkHandlers =>
                  Len(circuit_queue) < DispatchCapacity
           /\ circuit_queue' =
                  IF e.type = "CIRCUIT" /\ e.type \in NetworkHandlers
                  THEN Enqueue(circuit_queue, i) ELSE circuit_queue
           /\ outbox' =
                  IF e.type = "NETWORK_ECHO" /\ e.type \in NetworkHandlers
                  THEN outbox \cup {[re |-> i, to |-> e.source,
                                     type |-> "NETWORK_ECHO", kind |-> "none"]}
                  ELSE outbox
           /\ disp_closed' =
                  IF e.type = "UNKNOWN" THEN disp_closed \cup {e.source}
                  ELSE disp_closed
           /\ net_log' = Append(net_log, << "complete", i >>)
    /\ net_running' = << >>
    /\ UNCHANGED << arrived, net_queue, circuit_running, circuit_log,
                    routingVars >>

\* The circuit loop's worker takes the next envelope and invokes its handler.
CircuitInvoke ==
    /\ LoopsRunning
    /\ circuit_running = << >>
    /\ circuit_queue # << >>
    /\ LET i == NextEnvelope(circuit_queue) IN
         /\ circuit_running' = << i >>
         /\ circuit_queue' = Without(circuit_queue, i)
         /\ circuit_log' = Append(circuit_log, << "invoke", i >>)
    /\ UNCHANGED << arrived, net_queue, net_running, net_log, routingVars,
                    outbox, disp_closed >>

\* The CIRCUIT_ERROR a handler answers to the source of envelope i.
CircuitError(i, m) ==
    [re |-> i, to |-> m.source, type |-> "CIRCUIT_ERROR",
     kind |-> IF m.circuit \in DOMAIN circuits
              THEN "UNKNOWN_SERVICE" ELSE "UNKNOWN_CIRCUIT"]

\* SERVICE_CONNECT_REQUEST for service s on the known circuit c: s joins
\* the roster of c and (c, s) is routed to this node.
ServiceConnect(c, s) ==
    /\ circuits' = [circuits EXCEPT ![c].roster = @ \cup {s}]
    /\ services' = Extend(services, << c, s >>, ServiceConnectNodeId)

\* SERVICE_DISCONNECT_REQUEST for the routed (c, s): s leaves the roster
\* and the route is removed.
ServiceDisconnect(c, s) ==
    /\ circuits' = [circuits EXCEPT ![c].roster = @ \ {s}]
    /\ services' = [k \in DOMAIN services \ {<< c, s >>} |-> services[k]]

\* What the handler of a message of type t, which passes messages on, does
\* to the routing table: nothing it can do without a writer; with one, it
\* may leave the table or clear it.
ForwardingHandlerWrites(t) ==
    IF "writer" \in RoutingCapabilities(t)
    THEN \/ UNCHANGED << circuits, services >>
         \/ /\ circuits' = [c \in DOMAIN circuits |->
                               [circuits[c] EXCEPT !.roster = {}]]
            /\ services' = [k \in {} |-> node_id]
    ELSE UNCHANGED << circuits, services >>

\* The running circuit handler completes.
CircuitComplete ==
    /\ LoopsRunning
    /\ circuit_running # << >>
    /\ LET i == circuit_running[1]
           m == Unwrap(arrived[i])
           handled == m.type \in CircuitHandlers
       IN  /\ CASE ~handled ->
                     UNCHANGED << circuits, services, outbox >>
                [] handled /\ m.type = "SERVICE_CONNECT_REQUEST"
                         /\ "writer" \in RoutingCapabilities(m.type)
                         /\ m.circuit \in DOMAIN circuits ->
                     /\ ServiceConnect(m.circuit, m.service)
                     /\ outbox' = outbox
                [] handled /\ m.type = "SERVICE_DISCONNECT_REQUEST"
                         /\ "writer" \in RoutingCapabilities(m.type)
                         /\ Routed(m.circuit, m.service) ->
                     /\ ServiceDisconnect(m.circuit, m.service)
                     /\ outbox' = outbox
                [] handled /\ m.type \in ForwardedTypes
                         /\ Routed(m.circuit, m.service) ->
                     /\ outbox' = outbox \cup
                            {[re |-> i, to |-> services[<< m.circuit, m.service >>],
                              type |-> m.type, kind |-> "none"]}
                     /\ ForwardingHandlerWrites(m.type)
                [] handled /\ m.type \in ForwardedTypes
                         /\ ~Routed(m.circuit, m.service) ->
                     /\ outbox' = outbox \cup {CircuitError(i, m)}
                     /\ ForwardingHandlerWrites(m.type)
                [] OTHER ->
                     /\ outbox' = outbox \cup {CircuitError(i, m)}
                     /\ UNCHANGED << circuits, services >>
           /\ rt_last' =
                CASE m.type = "SERVICE_CONNECT_REQUEST" /\ rt_last.req = m ->
                       [rt_last EXCEPT !.count = 2]
                  [] m.type = "SERVICE_CONNECT_REQUEST" /\ rt_last.req # m ->
                       [req |-> m, count |-> 1,
                        after |-> [circuits |-> circuits', services |-> services']]
                  [] m.type = "SERVICE_DISCONNECT_REQUEST" ->
                       [req |-> Unwrap([source |-> "none", inner |-> NoInner]),
                        count |-> 0, after |-> rt_last.after]
                  [] OTHER -> rt_last
           /\ circuit_log' = Append(circuit_log, << "complete", i >>)
    /\ circuit_running' = << >>
    /\ UNCHANGED << arrived, net_queue, circuit_queue, net_running, net_log,
                    disp_closed >>

\* The admin service writes circuit c, accepted by this node as one of its
\* members, into the routing table.
AddCircuit(c, members) ==
    /\ LoopsRunning
    /\ c \notin DOMAIN circuits
    /\ circuits' = Extend(circuits, c, [members |-> members, roster |-> {}])
    /\ rt_last' = [req |-> Unwrap([source |-> "none", inner |-> NoInner]),
                   count |-> 0, after |-> rt_last.after]
    /\ UNCHANGED << loopVars, services, outbox, disp_closed >>

\* The frame of the dispatch loops and the routing table.
DispatchOp(A) ==
    /\ A
    /\ UNCHANGED << daemonVars, pm_strict, hb_interval, peerTableVars,
                    meshVars, otherVars >>

\* The loops' workers and the admin service's writes.
DispatchSteps ==
    \/ DispatchOp(NetInvoke)
    \/ DispatchOp(NetComplete)
    \/ DispatchOp(CircuitInvoke)
    \/ DispatchOp(CircuitComplete)
    \/ \E c \in AcceptedCircuitIds : \E ms \in MemberSets :
          DispatchOp(AddCircuit(c, ms))

DispatchOps ==
    \/ \E e \in NetworkEnvelopes : DispatchOp(DeliverEnvelope(e))
    \/ DispatchSteps

\* The dispatch of an echo and of two circuit messages of one peer.
SampleEnvelopes ==
    { e \in NetworkEnvelopes :
        /\ e.source = "B"
        /\ e.type \in { "NETWORK_ECHO", "CIRCUIT" }
        /\ e.inner.type \in { "none", "SERVICE_CONNECT_REQUEST",
                               "CIRCUIT_DIRECT_MESSAGE" }
        /\ e.inner.circuit \in { "none", "c1" } }

SampleDispatchOps ==
    \/ \E e \in SampleEnvelopes : DispatchOp(DeliverEnvelope(e))
    \/ DispatchSteps

\* The dispatch of the circuit messages of one peer, of all five types.
CircuitDispatchOps ==
    \/ \E e \in CircuitEnvelopes : DispatchOp(DeliverEnvelope(e))
    \/ DispatchSteps

\* A loop whose worker returns at the first handler error.
LoopExitsAfterError(l) == alive \ {l}

\* The threads running after a handler of loop l returned an error: the
\* worker logs the error and goes on to the next envelope.
LoopAfterError(l) == alive

\* The running network handler returns an error: it is logged.
NetHandlerError ==
    /\ LoopsRunning
    /\ net_running # << >>
    /\ arrived[net_running[1]].type \in NetworkHandlers
    /\ net_log' = Append(net_log, << "error", net_running[1] >>)
    /\ net_running' = << >>
    /\ alive' = LoopAfterError("network_loop")
    /\ UNCHANGED << arrived, net_queue, circuit_queue, circuit_running,
                    circuit_log, routingVars, outbox, disp_closed >>

\* The running circuit handler returns an error: it is logged and, the
\* source being there to reply to, answered with a CIRCUIT_ERROR.
CircuitHandlerError ==
    /\ LoopsRunning
    /\ circuit_running # << >>
    /\ Unwrap(arrived[circuit_running[1]]).type \in CircuitHandlers
    /\ LET i == circuit_running[1] IN
         /\ circuit_log' = Append(circuit_log, << "error", i >>)
         /\ outbox' = outbox \cup
                {[re |-> i, to |-> arrived[i].source, type |-> "CIRCUIT_ERROR",
                  kind |-> "HANDLER_ERROR"]}
    /\ circuit_running' = << >>
    /\ alive' = LoopAfterError("circuit_loop")
    /\ UNCHANGED << arrived, net_queue, circuit_queue, net_running, net_log,
                    routingVars, disp_closed >>

\* The frame of a handler error: the loops' threads are its to change.
HandlerErrorOp(A) ==
    /\ A
    /\ UNCHANGED << builderVars, health, mainVars, transportVars, svcVars,
                    listenerVars, shutdownVars, pm_strict, hb_interval,
                    peerTableVars, meshVars, otherVars >>

HandlerErrors ==
    \/ HandlerErrorOp(NetHandlerError)
    \/ HandlerErrorOp(CircuitHandlerError)

(***************************************************************************)
(* The service orchestrator: the life cycle of its service records.        *)
(***************************************************************************)

OrchServices == { "s1", "s2" }
RecordStates == { "NEW", "STARTED", "STOPPED", "DESTROYED" }
ProcessorFailures == { "panic", "fatal error" }

\* An operation on the record of s that applies in the states `from` and
\* moves it to `to`; in any other state it fails and changes nothing.
OrchTransition(op, s, from, to) ==
    /\ orch_last' = [op |-> op, svc |-> s, before |-> records[s],
                     ok |-> records[s] \in from]
    /\ records' = IF records[s] \in from
                    THEN [records EXCEPT ![s] = to]
                    ELSE records

\* destroy_service that does not look at the state of the record.
DestroyFromAnyState == RecordStates \ { "DESTROYED" }

\* destroy_service applies to a STOPPED service.
DestroyFrom == { "STOPPED" }

\* initialize_service(ServiceDef): the factory creates the service, a fresh
\* processor takes it; a new service, or one that was stopped, is STARTED.
initialize_service(s) ==
    /\ OrchTransition("initialize_service", s, { "NEW", "STOPPED" }, "STARTED")
    /\ rec_cause' = IF records[s] \in { "NEW", "STOPPED" }
                      THEN [rec_cause EXCEPT ![s] = "none"]
                      ELSE rec_cause

\* shutdown_service(service_id): stop message flow, then STARTED -> STOPPED.
shutdown_service(s) ==
    /\ OrchTransition("shutdown_service", s, { "STARTED" }, "STOPPED")
    /\ UNCHANGED rec_cause

\* destroy_service(service_id): STOPPED -> DESTROYED; processor joined.
destroy_service(s) ==
    /\ OrchTransition("destroy_service", s, DestroyFrom, "DESTROYED")
    /\ UNCHANGED rec_cause

\* A panic or fatal error inside the processor of a started service: STOPPED,
\* with the cause recorded.
ProcessorFails(s, cause) ==
    /\ records[s] = "STARTED"
    /\ OrchTransition("processor_failure", s, { "STARTED" }, "STOPPED")
    /\ rec_cause' = [rec_cause EXCEPT ![s] = cause]

OrchOp(A) ==
    /\ A
    /\ UNCHANGED << daemonVars, pm_strict, hb_interval, peerTableVars, netVars,
                    pacemakerVars, factoryVars, keygenVars, oauthUserVars >>

OrchestratorOps ==
    \/ \E s \in OrchServices : OrchOp(initialize_service(s))
    \/ \E s \in OrchServices : OrchOp(shutdown_service(s))
    \/ \E s \in OrchServices : OrchOp(destroy_service(s))
    \/ \E s \in OrchServices : \E cause \in ProcessorFailures :
          OrchOp(ProcessorFails(s, cause))

(***************************************************************************)
(* The connection manager's heartbeat (libsplinter), at the interval       *)
(* start() hands it.                                                       *)
(***************************************************************************)

MaxTicks == 7

\* The subscribers of the connection manager's notifications.
Subscribers == { "peer_manager", "admin_service" }

\* The intervals without traffic after which a connection has failed.
SilentIntervals == 3

PacemakerRunning ==
    /\ ProcessRunning
    /\ "connection_manager" \in alive

Silence(c) == hb_now - hb_last_seen[c]

\* The handshake of c completes: its silence is counted from now on.
ConnectionAuthorized(c) ==
    /\ PacemakerRunning
    /\ MeshAddConnection(c)
    /\ hb_last_seen' = [hb_last_seen EXCEPT ![c] = hb_now]
    /\ UNCHANGED << hb_now, hb_due, hb_sent, hb_notified, hb_last >>

\* A frame arrives on the authorized connection c.
Traffic(c) ==
    /\ PacemakerRunning
    /\ mesh_conn[c] = "AUTHORIZED"
    /\ hb_last_seen[c] # hb_now
    /\ hb_last_seen' = [hb_last_seen EXCEPT ![c] = hb_now]
    /\ UNCHANGED << meshVars, hb_now, hb_due, hb_sent, hb_notified, hb_last >>

\* A second passes; a heartbeat round that is due is made first.
Tick ==
    /\ PacemakerRunning
    /\ hb_now < MaxTicks
    /\ hb_now < hb_due
    /\ hb_now' = hb_now + 1
    /\ UNCHANGED << meshVars, hb_due, hb_last_seen, hb_sent, hb_notified, hb_last >>

\* The heartbeat round: a HEARTBEAT frame to every AUTHORIZED connection; one
\* that has been silent for three intervals is marked FAILED and every
\* subscriber is notified.
Heartbeat ==
    /\ PacemakerRunning
    /\ hb_now = hb_due
    /\ hb_now < MaxTicks
    /\ LET authorized == { c \in Connections : mesh_conn[c] = "AUTHORIZED" }
           failed == { c \in authorized :
                         Silence(c) >= SilentIntervals * hb_interval }
       IN /\ hb_sent' = [c \in Connections |->
                           IF c \in authorized THEN hb_sent[c] + 1 ELSE hb_sent[c]]
          /\ mesh_conn' = [c \in Connections |->
                             IF c \in failed THEN "FAILED" ELSE mesh_conn[c]]
          /\ hb_notified' = hb_notified \cup (Subscribers \X failed)
          /\ hb_last' = [at |-> hb_now, sent_to |-> authorized, failed |-> failed]
    /\ hb_due' = hb_now + hb_interval
    /\ UNCHANGED << mesh_outgoing, mesh_wire, mesh_incoming, mesh_sent,
                    mesh_received, mesh_send_result, authVars, hb_now,
                    hb_last_seen >>

HeartbeatOp(A) ==
    /\ A
    /\ UNCHANGED << daemonVars, pm_strict, hb_interval, peerTableVars,
                    dispatchVars, orchVars, factoryVars, keygenVars,
                    oauthUserVars >>

HeartbeatOps ==
    \/ \E c \in Connections : MeshOp(AddInboundConnection(c))
    \/ \E c \in Connections : HeartbeatOp(ConnectionAuthorized(c))
    \/ \E c \in Connections : HeartbeatOp(Traffic(c))
    \/ HeartbeatOp(Tick)
    \/ HeartbeatOp(Heartbeat)

(***************************************************************************)
(* ScabbardFactory (libsplinter/src/service/scabbard/factory.rs)           *)
(***************************************************************************)

DEFAULT_DB_DIR == "/var/lib/splinter"
\* The size DEFAULT_DB_SIZE would be with 1024 for 1028.
DefaultDbSizeOfGibibyte == 1024 * 1024 * 1024

DEFAULT_DB_SIZE == 1028 * 1028 * 1028

\* Option<String> and Option<usize> arguments of ScabbardFactory::new.
DbDirArgs == { [some |-> FALSE, value |-> ""], [some |-> TRUE, value |-> "/tmp"] }
DbSizeArgs ==
    { [some |-> FALSE, value |-> 0], [some |-> TRUE, value |-> 1024 * 1024],
      [some |-> TRUE, value |-> 1024 * 1024 * 1024] }

\* Option::unwrap_or / unwrap_or_else.
UnwrapOr(opt, default) == IF opt.some THEN opt.value ELSE default

\* The arguments create is called with.  A text is the sequence of its
\* characters.
ServiceIdArgs == { "0", "s1" }
ServiceTypeArgs == { "", "scabbard" }
PeerServiceArgs == { << >>, << "1", "2", "3" >>, << "1", "1" >> }
Quote == "\""
EmptyListText == << "[", "]" >>
OneKeyText == << "[", Quote, "k", Quote, "]" >>
TwoKeysText == << "[", Quote, "k", Quote, ",", Quote, "m", Quote, "]" >>
AdminKeysTexts ==
    { EmptyListText, OneKeyText, TwoKeysText,
      << >>,
      << "[", "1", "]" >>,
      << Quote, "k", Quote >>,
      << "[", Quote, "k", Quote >>,
      << "[", Quote, "k", Quote, "]", "x" >>,
      << "[", Quote, "k", Quote, ",", "]" >>,
      << "{", "}" >> }
ArgMaps ==
    { [a \in {} |-> << >>], [a \in {"version"} |-> << "1" >>] }
    \cup { [a \in {"admin_keys"} |-> t] : t \in AdminKeysTexts }
    \cup { [a \in {"admin_keys", "version"} |-> OneKeyText] }

ParseError == [ok |-> FALSE, value |-> << >>]

\* The position of the first quote of t at or after i (0: there is none).
RECURSIVE ClosingQuote(_, _)
ClosingQuote(t, i) ==
    IF i > Len(t) THEN 0
    ELSE IF t[i] = Quote THEN i
    ELSE ClosingQuote(t, i + 1)

\* The elements of a JSON list from position i of t on, a string expected
\* there; acc holds the strings read so far.
RECURSIVE ParseStrings(_, _, _)
ParseStrings(t, i, acc) ==
    IF i > Len(t) \/ t[i] # Quote THEN ParseError
    ELSE LET j == ClosingQuote(t, i + 1) IN
         IF j = 0 \/ j = Len(t) THEN ParseError
         ELSE LET item == SubSeq(t, i + 1, j - 1) IN
              IF t[j + 1] = "]"
              THEN IF j + 1 = Len(t)
                   THEN [ok |-> TRUE, value |-> Append(acc, item)]
                   ELSE ParseError
              ELSE IF t[j + 1] = ","
              THEN ParseStrings(t, j + 2, Append(acc, item))
              ELSE ParseError

\* serde_json::from_str::<Vec<String>>(text): a JSON list of strings, or an
\* error.  (Texts without white space and escapes.)
FromStr(t) ==
    IF Len(t) < 2 \/ t[1] # "[" THEN ParseError
    ELSE IF t = EmptyListText THEN [ok |-> TRUE, value |-> << >>]
    ELSE ParseStrings(t, 2, << >>)

\* args.get("admin_keys") of a factory that takes a missing argument for
\* an empty list of keys.
GetAdminKeysOrEmptyList(args) ==
    IF "admin_keys" \in DOMAIN args
    THEN [some |-> TRUE, value |-> args["admin_keys"]]
    ELSE [some |-> TRUE, value |-> EmptyListText]

\* args.get("admin_keys").
GetAdminKeys(args) ==
    IF "admin_keys" \in DOMAIN args
    THEN [some |-> TRUE, value |-> args["admin_keys"]]
    ELSE [some |-> FALSE, value |-> << >>]

\* A create that constructs the service under the service type.
ScabbardIdFromServiceType(service_id, service_type) == service_type

\* The id create constructs the service under: Scabbard::new(service_id, ..).
ScabbardId(service_id, service_type) == service_id

NoService ==
    [service_id |-> "none", peer_services |-> {}, db_dir |-> "none",
     db_size |-> 0, admin_keys |-> << >>]

\* Scabbard::new(service_id, initial_peers, db_dir, db_size, admin_keys):
\* the service, or an error when its database cannot be set up.
ScabbardNew(id, initial_peers, db_dir, db_size, admin_keys, db_ok) ==
    IF db_ok
    THEN [ok |-> TRUE,
          service |-> [service_id |-> id, peer_services |-> initial_peers,
                       db_dir |-> db_dir, db_size |-> db_size,
                       admin_keys |-> admin_keys]]
    ELSE [ok |-> FALSE, service |-> NoService]

\* Service::service_id().
service_id(service) == service.service_id

\* ScabbardFactory::new(db_dir, db_size).
ScabbardFactoryNew(db_dir, db_size) ==
    [made |-> TRUE,
     db_dir |-> UnwrapOr(db_dir, DEFAULT_DB_DIR),
     db_size |-> UnwrapOr(db_size, DEFAULT_DB_SIZE)]

\* ScabbardFactory::create(service_id, _service_type, peer_services, args)
\* on factory f; db_ok: the service's database can be set up.
\* `constructions` counts the calls of Scabbard::new it made.
create(f, id, service_type, peer_services, args, db_ok) ==
    LET initial_peers == { peer_services[i] : i \in 1..Len(peer_services) }
        admin_keys_str == GetAdminKeys(args)
    IN  IF ~admin_keys_str.some
        THEN [kind |-> "InvalidArguments",
              msg |-> "admin_keys argument not specified",
              service |-> NoService, constructions |-> 0]
        ELSE LET admin_keys == FromStr(admin_keys_str.value) IN
             IF ~admin_keys.ok
             THEN [kind |-> "InvalidArguments",
                   msg |-> "failed to parse admin_keys list",
                   service |-> NoService, constructions |-> 0]
             ELSE LET made == ScabbardNew(ScabbardId(id, service_type),
                                          initial_peers, f.db_dir, f.db_size,
                                          admin_keys.value, db_ok)
                  IN  IF ~made.ok
                      THEN [kind |-> "CreationFailed", msg |-> "",
                            service |-> NoService, constructions |-> 1]
                      ELSE [kind |-> "Ok", msg |-> "",
                            service |-> made.service, constructions |-> 1]

FactoryOp(A) ==
    /\ A
    /\ UNCHANGED << daemonVars, pm_strict, hb_interval, peerTableVars, netVars,
                    orchVars, pacemakerVars, keygenVars, oauthUserVars >>

FactoryNew(db_dir, db_size) ==
    /\ fc_factory' = ScabbardFactoryNew(db_dir, db_size)
    /\ fc_new' = [db_dir |-> db_dir, db_size |-> db_size]
    /\ UNCHANGED << fc_call, fc_result >>

FactoryCreate(id, service_type, peer_services, args, db_ok) ==
    /\ fc_factory.made
    /\ fc_call' = [service_id |-> id, service_type |-> service_type,
                   peer_services |-> peer_services, args |-> args,
                   db_ok |-> db_ok]
    /\ fc_result' = create(fc_factory, id, service_type, peer_services, args, db_ok)
    /\ UNCHANGED << fc_factory, fc_new >>

FactoryOps ==
    \/ \E db_dir \in DbDirArgs : \E db_size \in DbSizeArgs :
          FactoryOp(FactoryNew(db_dir, db_size))
    \/ \E id \in ServiceIdArgs : \E service_type \in ServiceTypeArgs :
       \E peer_services \in PeerServiceArgs : \E args \in ArgMaps :
       \E db_ok \in BOOLEAN :
          FactoryOp(FactoryCreate(id, service_type, peer_services, args, db_ok))

(***************************************************************************)
(* create_key_pair (cli/src/action/keygen.rs)                              *)
(***************************************************************************)

\* Texts and keys are sequences of bytes; a text holds the ASCII codes of
\* its characters.
Newline == 10

\* The private keys new_random_private_key may return, and the public key
\* of each.
PrivateKeys == { << 1, 35 >>, << 171, 205 >> }
GetPublicKey(private_key) == << 2 >> \o private_key

\* The lower-case hex digit of n < 16: '0'..'9', 'a'..'f'.
HexDigit(n) == IF n < 10 THEN 48 + n ELSE 87 + n

\* as_hex(): two hex digits for every byte.
RECURSIVE AsHex(_)
AsHex(bytes) ==
    IF bytes = << >> THEN << >>
    ELSE << HexDigit(Head(bytes) \div 16), HexDigit(Head(bytes) % 16) >>
           \o AsHex(Tail(bytes))

\* The two key files of the key directory.
PrivateKeyPath == "key.priv"
PublicKeyPath == "key.pub"

\* The steps of create_key_pair that the environment can fail.
KeygenFailures ==
    { "get_public_key", "metadata", "open_private", "write_private",
      "open_public", "write_public", "chown_private", "chown_public" }

\* The order of the steps.
KeygenSteps ==
    << "get_public_key", "metadata", "open_private", "write_private",
       "open_public", "write_public", "chown_private", "chown_public" >>

\* The error a failing step returns.
KeygenError(step) ==
    IF step \in { "get_public_key", "write_private", "write_public" }
    THEN "ActionError" ELSE "EnvironmentError"

\* OpenOptions::new().write(true).create(true).open(path): the file, created
\* empty when it was not there.
Opened(files, path) ==
    IF path \in DOMAIN files THEN files
    ELSE [q \in DOMAIN files \cup {path} |-> IF q = path THEN << >> ELSE files[q]]

\* writeln!(file, "{}", text) on a file just opened: text and a newline
\* over the start of what the file held.
Written(files, path, text) ==
    LET line == text \o << Newline >>
        old == files[path]
    IN  [files EXCEPT ![path] = line \o SubSeq(old, Len(line) + 1, Len(old))]

\* Step `step` is completed by a call that fails at `fail`.
Completes(step, fail) ==
    fail = "none" \/ IndexOf(KeygenSteps, step) < IndexOf(KeygenSteps, fail)

\* A check that is made with force_create as well.
KeyFileExistsWhateverForce(files, force_create) ==
    PrivateKeyPath \in DOMAIN files \/ PublicKeyPath \in DOMAIN files

\* if !force_create { .. }: one of the two key files exists already.
KeyFileExists(files, force_create) ==
    ~force_create
      /\ ( PrivateKeyPath \in DOMAIN files \/ PublicKeyPath \in DOMAIN files )

\* create_key_pair(key_dir, private_key_path, public_key_path, force_create,
\* change_permissions), generating private_key and failing at step `fail`
\* ("none": nowhere).
create_key_pair(force_create, change_permissions, private_key, fail) ==
    LET public_key == GetPublicKey(private_key)
        exists == KeyFileExists(kg_files, force_create)
        failed == /\ fail # "none"
                  /\ fail \in { "chown_private", "chown_public" } => change_permissions
        f1 == IF Completes("open_private", fail)
              THEN Opened(kg_files, PrivateKeyPath) ELSE kg_files
        f2 == IF Completes("write_private", fail)
              THEN Written(f1, PrivateKeyPath, AsHex(private_key)) ELSE f1
        f3 == IF Completes("open_public", fail)
              THEN Opened(f2, PublicKeyPath) ELSE f2
        f4 == IF Completes("write_public", fail)
              THEN Written(f3, PublicKeyPath, AsHex(public_key)) ELSE f3
    IN  /\ kg_call' = [force_create |-> force_create,
                       change_permissions |-> change_permissions, fail |-> fail]
        /\ IF exists
           THEN /\ kg_result' = [kind |-> "EnvironmentError", value |-> << >>]
                /\ UNCHANGED << kg_files, kg_keys, kg_written >>
           ELSE /\ kg_keys' = [private |-> private_key, public |-> public_key]
                /\ kg_files' = f4
                /\ kg_written' = IF Completes("write_public", fail)
                                   THEN AsHex(public_key) \o << Newline >>
                                   ELSE << >>
                /\ kg_result' = IF failed
                                  THEN [kind |-> KeygenError(fail), value |-> << >>]
                                  ELSE [kind |-> "Ok", value |-> public_key]

KeygenOp(A) ==
    /\ A
    /\ UNCHANGED << daemonVars, pm_strict, hb_interval, peerTableVars, netVars,
                    orchVars, pacemakerVars, factoryVars, oauthUserVars >>

KeygenOps ==
    \E force_create \in BOOLEAN : \E change_permissions \in BOOLEAN :
    \E private_key \in PrivateKeys : \E fail \in KeygenFailures \cup {"none"} :
        KeygenOp(create_key_pair(force_create, change_permissions, private_key, fail))

(***************************************************************************)
(* GetUserByOAuthAuthorization (libsplinter/src/biome/rest_api/auth/oauth.rs) *)
(***************************************************************************)

\* The access tokens clients present and the Biome user IDs of sessions.
AccessTokens == { "t1", "t2" }
UserIds == { "u1", "u2" }

\* The AuthorizationHeader values a request may carry: a bearer token of
\* one of the kinds of BearerToken, or a custom header.
AuthorizationHeaders ==
    [scheme : { "Bearer" }, token_kind : { "Biome", "Custom", "Cylinder", "OAuth2" },
     value : AccessTokens]
    \cup [scheme : { "Custom" }, token_kind : { "none" }, value : AccessTokens]

\* No user: Option::None.
NoUser == [some |-> FALSE, id |-> "none"]

\* User::new(user_id)
UserNew(user_id) == [some |-> TRUE, id |-> user_id]

\* OAuthUserSessionStore::get_session(access_token) on store: the session
\* stored for that token, if any; an error when the store fails.
GetSession(store, access_token, store_fails) ==
    IF store_fails THEN [ok |-> FALSE, some |-> FALSE, user_id |-> "none"]
    ELSE IF access_token \in DOMAIN store
    THEN [ok |-> TRUE, some |-> TRUE, user_id |-> store[access_token]]
    ELSE [ok |-> TRUE, some |-> FALSE, user_id |-> "none"]

\* A match arm that takes the token of every bearer token.
IsBearer(authorization) == authorization.scheme = "Bearer"

\* AuthorizationHeader::Bearer(BearerToken::OAuth2(access_token))
IsOAuth2Bearer(authorization) ==
    authorization.scheme = "Bearer" /\ authorization.token_kind = "OAuth2"

\* GetUserByOAuthAuthorization::get(authorization) over store; lookups:
\* the tokens it passed to get_session.
get(store, authorization, store_fails) ==
    IF IsOAuth2Bearer(authorization)
    THEN LET opt_session == GetSession(store, authorization.value, store_fails) IN
         IF ~opt_session.ok
         THEN [kind |-> "InternalError", user |-> NoUser,
               lookups |-> << authorization.value >>]
         ELSE [kind |-> "Ok",
               user |-> IF opt_session.some THEN UserNew(opt_session.user_id)
                        ELSE NoUser,
               lookups |-> << authorization.value >>]
    ELSE [kind |-> "Ok", user |-> NoUser, lookups |-> << >>]

OAuthUserOp(A) ==
    /\ A
    /\ UNCHANGED << daemonVars, pm_strict, hb_interval, peerTableVars, netVars,
                    orchVars, pacemakerVars, factoryVars, keygenVars >>

\* A login stores a session of user_id under access_token.
AddSession(access_token, user_id) ==
    /\ oauth_user_session_store' =
          [t \in DOMAIN oauth_user_session_store \cup {access_token} |->
             IF t = access_token THEN user_id ELSE oauth_user_session_store[t]]
    /\ UNCHANGED << oauth_call, oauth_result >>

\* A logout removes the session stored under access_token.
RemoveSession(access_token) ==
    /\ access_token \in DOMAIN oauth_user_session_store
    /\ oauth_user_session_store' =
          [t \in DOMAIN oauth_user_session_store \ {access_token} |->
             oauth_user_session_store[t]]
    /\ UNCHANGED << oauth_call, oauth_result >>

\* A request with header `authorization` is mapped to its user.
GetUser(authorization, store_fails) ==
    /\ oauth_call' = [authorization |-> authorization, store_fails |-> store_fails]
    /\ oauth_result' = get(oauth_user_session_store, authorization, store_fails)
    /\ UNCHANGED oauth_user_session_store

OAuthUserOps ==
    \/ \E t \in AccessTokens : \E u \in UserIds : OAuthUserOp(AddSession(t, u))
    \/ \E t \in AccessTokens : OAuthUserOp(RemoveSession(t))
    \/ \E a \in AuthorizationHeaders : \E store_fails \in BOOLEAN :
          OAuthUserOp(GetUser(a, store_fails))

(***************************************************************************)
(* The specification                                                       *)
(***************************************************************************)

Components ==
    { "connection_manager", "peer_manager", "interconnect", "circuit_loop",
      "network_loop", "orchestrator", "admin_notification", "health_processor",
      "rest_api", "admin_processor" }

\* Everything start() and its threads work on, before start() is called.
NotStarted ==
    /\ pm_strict = "unset"
    /\ peers = << >>
    /\ live_refs = [k \in PeerKeys |-> 0]
    /\ pm_fatal = FALSE
    /\ pm_logged = FALSE
    /\ pm_last = [op |-> "none", key |-> "none", before |-> << >>]
    /\ mesh_conn = [c \in Connections |-> "NEW"]
    /\ mesh_outgoing = [c \in Connections |-> << >>]
    /\ mesh_wire = [c \in Connections |-> << >>]
    /\ mesh_incoming = << >>
    /\ mesh_sent = [c \in Connections |-> << >>]
    /\ mesh_received = [c \in Connections |-> << >>]
    /\ mesh_send_result = "none"
    /\ mesh_known = {}
    /\ pm_known = {}
    /\ conn_closed = {}
    /\ auth_cause = [c \in Connections |-> "none"]
    /\ arrived = << >>
    /\ net_queue = << >>
    /\ circuit_queue = << >>
    /\ net_running = << >>
    /\ circuit_running = << >>
    /\ net_log = << >>
    /\ circuit_log = << >>
    /\ circuits = << >>
    /\ services = << >>
    /\ outbox = {}
    /\ disp_closed = {}
    /\ hb_interval = 0
    /\ hb_now = 0
    /\ hb_due = 0
    /\ hb_last_seen = [c \in Connections |-> 0]
    /\ hb_sent = [c \in Connections |-> 0]
    /\ hb_notified = {}
    /\ hb_last = [at |-> 0, sent_to |-> {}, failed |-> {}]
    /\ records = [s \in OrchServices |-> "NEW"]
    /\ fc_factory = [made |-> FALSE, db_dir |-> "", db_size |-> 0]
    /\ fc_new = [db_dir |-> [some |-> FALSE, value |-> ""],
                 db_size |-> [some |-> FALSE, value |-> 0]]
    /\ fc_call = [service_id |-> "none", service_type |-> "none",
                  peer_services |-> << >>, args |-> [a \in {} |-> << >>],
                  db_ok |-> FALSE]
    /\ fc_result = [kind |-> "none", msg |-> "", service |-> NoService,
                    constructions |-> 0]
    /\ kg_files = [p \in {} |-> << >>]
    /\ kg_call = [force_create |-> FALSE, change_permissions |-> FALSE,
                  fail |-> "none"]
    /\ kg_keys = [private |-> << >>, public |-> << >>]
    /\ kg_written = << >>
    /\ kg_result = [kind |-> "none", value |-> << >>]
    /\ oauth_user_session_store = [t \in {} |-> "none"]
    /\ oauth_call = [authorization |-> [scheme |-> "none", token_kind |-> "none",
                                        value |-> "none"],
                     store_fails |-> FALSE]
    /\ oauth_result = [kind |-> "none", user |-> NoUser, lookups |-> << >>]
    /\ rec_cause = [s \in OrchServices |-> "none"]
    /\ orch_last = [op |-> "none", svc |-> "none", before |-> "none", ok |-> TRUE]
    /\ rt_last = [req |-> Unwrap([source |-> "none", inner |-> NoInner]),
                  count |-> 0,
                  after |-> [circuits |-> << >>, services |-> << >>]]
    /\ result = "none"
    /\ failedStep = "none"
    /\ network_listeners = {}
    /\ internal_service_listeners = << >>
    /\ inproc_ids = << >>
    /\ connected = {}
    /\ pending = {}
    /\ inbound = {}
    /\ svcPc = "unspawned"
    /\ svcResult = "none"
    /\ svc_log = << >>
    /\ admin_service_store = NoStore
    /\ auth_configs = << >>
    /\ peer_refs = << >>
    /\ connect_errors = {}
    /\ listenerState = [e \in EndpointSet |-> "unspawned"]
    /\ accepted = [e \in EndpointSet |-> 0]
    /\ lastAccept = [e \in EndpointSet |-> "none"]
    /\ add_errors = [e \in EndpointSet |-> 0]
    /\ alive = {}
    /\ signalled = {}
    /\ running = TRUE
    /\ hpc = "unset"
    /\ events = 0

\* A fresh SplinterDaemonBuilder.
InitBuild ==
    /\ builder = BuilderNew
    /\ buildResult = "none"
    /\ daemon = NoDaemon
    /\ health = FALSE
    /\ network_endpoints = << >>
    /\ pc = "build"
    /\ DefaultConfig
    /\ NotStarted

\* A SplinterDaemon that build() returned, about to run start().
Init ==
    /\ builder \in { b \in [BuilderFields -> {"set", "true", "1"}] :
                       \A f \in BuilderFields : b[f] \in FieldValues(f) }
    /\ buildResult = "Ok"
    /\ daemon = [built |-> TRUE,
                 strict_ref_counts |-> builder["strict_ref_counts"],
                 heartbeat |-> builder["heartbeat"]]
    /\ health \in BOOLEAN
    /\ network_endpoints = << "tcps://0.0.0.0:8044" >>
    /\ pc = "storage"
    /\ DefaultConfig
    /\ NotStarted

Startup ==
    \/ SetupStorage
    \/ ListenNetwork
    \/ ListenInternal
    \/ CreateAuthorizers
    \/ StartConnectionManager
    \/ StartPeerManager
    \/ ListenForServices
    \/ ConnectOrchestrator
    \/ ConnectAdmin
    \/ ConnectHealth
    \/ BuildInterconnect
    \/ BuildCircuitDispatchLoop
    \/ BuildNetworkDispatchLoop
    \/ SpawnNetworkListeners
    \/ AddInitialPeers
    \/ CreateOrchestrator
    \/ CreateRegistry
    \/ CreateAdminService
    \/ ConfigureAuth
    \/ StartHealthService
    \/ RunRestApi
    \/ StartAdminService
    \/ SetCtrlcHandler

Shutdown ==
    \/ JoinHealth
    \/ JoinRestApi
    \/ JoinServiceProcessor
    \/ JoinOrchestrator
    \/ ShutdownPeerManager
    \/ AwaitPeerManager
    \/ JoinAdminNotification
    \/ ShutdownConnectionManager
    \/ AwaitConnectionManager
    \/ ShutdownMesh

Handler == Sigint \/ HandlerStep

Workers == \E c \in Components : WorkerExit(c)

Listeners == SvcAccept \/ \E e \in EndpointSet : ListenerAccept(e)

Next ==
    \/ Startup
    \/ Shutdown
    \/ Handler
    \/ Workers
    \/ Listeners

\* The daemon: start() and the threads it spawns.
Spec == Init /\ [][Next]_vars

NextBuild ==
    \/ \E f \in BuilderFields : \E v \in FieldValues(f) : WithField(f, v)
    \/ Build

\* The builder: any sequence of with_* calls, then build().
SpecBuild == InitBuild /\ [][NextBuild]_vars

\* start() up to the start of the peer manager.
StartupToPeerManager ==
    \/ SetupStorage
    \/ ListenNetwork
    \/ ListenInternal
    \/ CreateAuthorizers
    \/ StartConnectionManager
    \/ StartPeerManager

\* A builder with every field set but strict_ref_counts, and one network
\* endpoint configured.
InitPeers ==
    /\ builder = [f \in BuilderFields |->
                    IF f = "strict_ref_counts" THEN None
                    ELSE IF f = "heartbeat" THEN "1" ELSE "set"]
    /\ buildResult = "none"
    /\ daemon = NoDaemon
    /\ health = FALSE
    /\ network_endpoints = << "tcps://0.0.0.0:8044" >>
    /\ pc = "build"
    /\ DefaultConfig
    /\ NotStarted

NextPeers ==
    \/ \E v \in FieldValues("strict_ref_counts") : WithField("strict_ref_counts", v)
    \/ Build
    \/ StartupToPeerManager
    \/ PeerManagerOps

\* start() up to the start of the connection manager.
StartupToConnectionManager ==
    \/ SetupStorage
    \/ ListenNetwork
    \/ ListenInternal
    \/ CreateAuthorizers
    \/ StartConnectionManager

\* A builder with every field set but heartbeat, and one network endpoint
\* configured.
InitHeartbeat ==
    /\ builder = [f \in BuilderFields |->
                    IF f = "heartbeat" THEN None
                    ELSE IF f = "strict_ref_counts" THEN "true" ELSE "set"]
    /\ buildResult = "none"
    /\ daemon = NoDaemon
    /\ health = FALSE
    /\ network_endpoints = << "tcps://0.0.0.0:8044" >>
    /\ pc = "build"
    /\ DefaultConfig
    /\ NotStarted

NextHeartbeat ==
    \/ \E v \in FieldValues("heartbeat") : WithField("heartbeat", v)
    \/ Build
    \/ StartupToConnectionManager
    \/ HeartbeatOps

\* The heartbeat of a daemon built with any heartbeat interval.
SpecHeartbeat == InitHeartbeat /\ [][NextHeartbeat]_vars

\* A built daemon (build() created its Mesh), default features.
InitMesh == Init /\ ~health

\* start() with the default features, up to its steady state.
StartupDefaultFeatures ==
    \/ StartupToPeerManager
    \/ ListenForServices
    \/ ConnectOrchestrator
    \/ ConnectAdmin
    \/ BuildInterconnect
    \/ BuildCircuitDispatchLoop
    \/ BuildNetworkDispatchLoop
    \/ SpawnNetworkListeners
    \/ AddInitialPeers
    \/ CreateOrchestrator
    \/ CreateRegistry
    \/ CreateAdminService
    \/ ConfigureAuth
    \/ RunRestApi
    \/ StartAdminService
    \/ SetCtrlcHandler

\* The dispatch loops of a daemon: start() assembles them, then envelopes
\* arrive and are handled, and the admin service writes circuits.
SpecDispatch == InitMesh /\ [][StartupDefaultFeatures \/ DispatchOps]_vars

\* The dispatch loops of a daemon that is sent circuit messages of every
\* type.
SpecCircuitDispatch ==
    InitMesh /\ [][StartupDefaultFeatures \/ CircuitDispatchOps]_vars

\* The dispatch loops, sent an echo or a circuit message, with handlers that
\* may return an error; the workers of the two loops keep taking steps.
FairSpecHandlerErrors ==
    /\ InitMesh
    /\ [][StartupDefaultFeatures \/ SampleDispatchOps \/ HandlerErrors]_vars
    /\ WF_vars(DispatchOp(NetInvoke))
    /\ WF_vars(DispatchOp(NetComplete) \/ HandlerErrorOp(NetHandlerError))
    /\ WF_vars(DispatchOp(CircuitInvoke))
    /\ WF_vars(DispatchOp(CircuitComplete) \/ HandlerErrorOp(CircuitHandlerError))

\* A daemon configured to listen on both network endpoints.
InitListeners ==
    /\ builder = [f \in BuilderFields |->
                    IF f = "strict_ref_counts" THEN "true"
                    ELSE IF f = "heartbeat" THEN "1" ELSE "set"]
    /\ buildResult = "Ok"
    /\ daemon = [built |-> TRUE, strict_ref_counts |-> "true", heartbeat |-> "1"]
    /\ health = FALSE
    /\ network_endpoints = << "tcps://0.0.0.0:8044", "tcp://0.0.0.0:8045" >>
    /\ pc = "storage"
    /\ DefaultConfig
    /\ NotStarted

\* The network listener threads of that daemon: start() spawns one per
\* endpoint, and connections and accept errors arrive at them.
SpecListeners ==
    /\ InitListeners
    /\ [][ \/ StartupDefaultFeatures
           \/ \E e \in EndpointSet : ListenerAcceptWithin(e, MaxAccepts) ]_vars

\* A daemon compiled with or without the features "database" and "auth" and
\* configured with any storage type, and with feature "database" any
\* database URL.
InitStorage ==
    /\ builder = [f \in BuilderFields |->
                    IF f = "strict_ref_counts" THEN "true"
                    ELSE IF f = "heartbeat" THEN "1" ELSE "set"]
    /\ buildResult = "Ok"
    /\ daemon = [built |-> TRUE, strict_ref_counts |-> "true", heartbeat |-> "1"]
    /\ health = FALSE
    /\ network_endpoints = << "tcps://0.0.0.0:8044" >>
    /\ pc = "storage"
    /\ self_initial_peers = << >>
    /\ features \in SUBSET { "database", "auth" }
    /\ \E st \in StorageTypes : \E url \in DbUrls :
          /\ "database" \notin features => url = None
          /\ options = [DefaultOptions EXCEPT !.storage_type = st, !.db_url = url]
    /\ NotStarted

\* start() of that daemon, up to its steady state.
SpecStorage == InitStorage /\ [][StartupDefaultFeatures]_vars

\* A daemon compiled with feature "auth" and configured with any OAuth
\* settings.
InitOAuth ==
    /\ builder = [f \in BuilderFields |->
                    IF f = "strict_ref_counts" THEN "true"
                    ELSE IF f = "heartbeat" THEN "1" ELSE "set"]
    /\ buildResult = "Ok"
    /\ daemon = [built |-> TRUE, strict_ref_counts |-> "true", heartbeat |-> "1"]
    /\ health = FALSE
    /\ network_endpoints = << "tcps://0.0.0.0:8044" >>
    /\ pc = "storage"
    /\ self_initial_peers = << >>
    /\ features = { "auth" }
    /\ \E p \in OAuthProviderArgs : \E id, secret, redirect, url \in OAuthArgs :
          options = [DefaultOptions EXCEPT
                        !.oauth_provider = p, !.oauth_client_id = id,
                        !.oauth_client_secret = secret,
                        !.oauth_redirect_url = redirect,
                        !.oauth_openid_url = url]
    /\ NotStarted

\* start() of that daemon, up to its steady state.
SpecOAuth == InitOAuth /\ [][StartupDefaultFeatures]_vars

\* The lists of initial peers a daemon may be configured with.
InitialPeerLists ==
    { << >>, << "tcp://b:8044" >>, << "tcp://b:8044", "tcp://c:8044" >>,
      << "tcp://b:8044", "tcp://b:8045" >> }

\* A daemon configured with initial peers.
InitInitialPeers ==
    /\ builder = [f \in BuilderFields |->
                    IF f = "strict_ref_counts" THEN "true"
                    ELSE IF f = "heartbeat" THEN "1" ELSE "set"]
    /\ buildResult = "Ok"
    /\ daemon = [built |-> TRUE, strict_ref_counts |-> "true", heartbeat |-> "1"]
    /\ health = FALSE
    /\ network_endpoints = << "tcps://0.0.0.0:8044" >>
    /\ pc = "storage"
    /\ self_initial_peers \in InitialPeerLists
    /\ options = DefaultOptions
    /\ features = {}
    /\ NotStarted

\* The endpoints of the members of the circuits the admin service sets up.
AdminPeerEndpoints == { "tcp://b:8045" }

\* What the other holders of PeerRefs and the peers do while the daemon
\* runs: the admin service adds peers and drops its own references, and
\* handshakes identify the unidentified peers.
OtherPeerHolders ==
    \/ \E e \in AdminPeerEndpoints : PeerOp(add_peer(e))
    \/ \E k \in PeerKeys : PeerOp(DropOtherPeerRef(k))
    \/ \E e \in PeerEndpoints : PeerOp(IdentifyPeer(e))

\* The daemon from start() to its return, with initial peers configured.
\* The shutdown sequence of start() with the default features (no health
\* service to join).
ShutdownDefaultFeatures ==
    \/ JoinRestApi
    \/ JoinServiceProcessor
    \/ JoinOrchestrator
    \/ ShutdownPeerManager
    \/ AwaitPeerManager
    \/ JoinAdminNotification
    \/ ShutdownConnectionManager
    \/ AwaitConnectionManager
    \/ ShutdownMesh

SpecInitialPeers ==
    /\ InitInitialPeers
    /\ [][ StartupDefaultFeatures \/ ShutdownDefaultFeatures \/ Handler
           \/ Workers \/ OtherPeerHolders ]_vars

\* The authorization of connections: handshakes that succeed or fail, the
\* hand-off to the Mesh and the peer manager, and what the Mesh does.
AuthOps ==
    \/ \E c \in Connections : \E cause \in AuthFailures :
          MeshOp(HandshakeFails(c, cause))
    \/ \E c \in Connections : MeshOp(NotifyPeerManager(c))
    \/ MeshOps

SpecAuth == InitMesh /\ [][AuthOps]_vars

\* The Mesh of a built daemon: connections are added, sent on, read by the
\* remote node, and ended.
SpecMesh == InitMesh /\ [][MeshOps]_vars

\* create_key_pair is called, again and again, on one key directory.
SpecKeygen == InitMesh /\ [][KeygenOps]_vars

\* Sessions are stored and removed, and requests are mapped to users.
SpecOAuthUser == InitMesh /\ [][OAuthUserOps]_vars

\* A ScabbardFactory is made and asked to create services.
SpecFactory == InitMesh /\ [][FactoryOps]_vars

\* The orchestrator of a built daemon: services are initialized, shut down
\* and destroyed, and their processors fail.
SpecOrch == InitMesh /\ [][OrchestratorOps]_vars

\* The Mesh's write and read workers and the remote consumer are threads
\* of their own and keep running: each takes its step when it can.
FairSpecMesh ==
    /\ SpecMesh
    /\ \A c \in Connections : WF_vars(MeshOp(MeshWrite(c)))
    /\ \A c \in Connections : WF_vars(MeshOp(MeshRead(c)))
    /\ WF_vars(MeshOp(MeshReceive))

\* The peer manager: the builder's strict_ref_counts, build(), start() up to
\* the peer manager's start, then the peer manager's operations.
SpecPeers == InitPeers /\ [][NextPeers]_vars

\* A step of the shutdown: of the handler's closure, of a worker exiting, or
\* of start()'s shutdown sequence.
ShutdownProgress == HandlerStep \/ Workers \/ Shutdown

\* The threads are scheduled: while the handler thread can run its closure,
\* a worker whose exit condition holds can exit, or start() can take a step
\* that does not block, one of them does.  (Weaker than fairness for each
\* thread, which the operating system's scheduler provides.)
FairSpec == Spec /\ WF_vars(ShutdownProgress)

\* The main thread and the service-listener thread are scheduled: while
\* start() can take a step of its startup that does not fail, it takes one,
\* and while a connection waits at the listener the service-listener thread
\* accepts on, the thread accepts it.  Failures are the environment's choice.
FairSpecStartup ==
    /\ Spec
    /\ WF_vars(Startup /\ pc' # "returned")
    /\ WF_vars(SvcAccept /\ pending' # pending)

(***************************************************************************)
(* Properties                                                              *)
(***************************************************************************)

\* The entries of sequence s.
Range(s) == { s[i] : i \in 1..Len(s) }

\* The steps of start() from the installation of the handler on.
ShutdownSteps ==
    << "join_health", "join_rest_api", "join_service_processor",
       "join_orchestrator", "peer_manager_shutdown", "peer_manager_await",
       "join_admin_notification", "connection_manager_shutdown",
       "connection_manager_await", "mesh_shutdown", "returned" >>

\* start() has completed the step `step` of its shutdown sequence.
Past(step) ==
    /\ result \in {"none", "Ok"}
    /\ IndexOf(ShutdownSteps, pc) > IndexOf(ShutdownSteps, step)

\* The StartError variants.
StartErrors ==
    { "TransportError", "NetworkError", "StorageError", "ProtocolError",
      "RestApiError", "RegistryError", "AdminServiceError",
      "HealthServiceError", "OrchestratorError" }

\* The order of shutdown as documented, over the signalers start() holds:
\* REST API, admin service, peer manager, connection manager, the two
\* dispatch loops, Mesh.
DocumentedRank(c) ==
    CASE c = "rest_api"            -> 1
      [] c = "admin_service"       -> 2
      [] c = "peer_manager"        -> 4
      [] c = "connection_manager"  -> 5
      [] c = "circuit_loop"        -> 6
      [] c = "network_loop"        -> 6
      [] c = "mesh"                -> 7
      [] OTHER                     -> 0

\* C1 as stated: a component's shutdown signaler fires only after the
\* signaler of every component earlier in the documented order (REST API,
\* admin service, orchestrator, peer manager, connection manager, dispatch
\* loops, Mesh) has fired.
C1_DocumentedOrder ==
    \A c \in signalled :
      \A d \in { "rest_api", "admin_service", "peer_manager",
                 "connection_manager", "circuit_loop", "network_loop", "mesh" } :
        (DocumentedRank(c) > 0 /\ DocumentedRank(d) < DocumentedRank(c))
          => d \in signalled

\* C1 as amended: the handler signals the admin service, then the REST API,
\* then the circuit and the network dispatch loop; start() signals the peer
\* manager only after the admin service and the REST API were signalled,
\* then the connection manager, then the Mesh.
C1_ShutdownOrder ==
    /\ "rest_api" \in signalled => "admin_service" \in signalled
    /\ "circuit_loop" \in signalled => "rest_api" \in signalled
    /\ "network_loop" \in signalled => "circuit_loop" \in signalled
    /\ "peer_manager" \in signalled => {"admin_service", "rest_api"} \subseteq signalled
    /\ "connection_manager" \in signalled => "peer_manager" \in signalled
    /\ "mesh" \in signalled => "connection_manager" \in signalled

\* C1 witness: a shutdown in which every signaler has fired.
C1_Witness ==
    {"admin_service", "rest_api", "circuit_loop", "network_loop",
     "peer_manager", "connection_manager", "mesh"} \subseteq signalled

\* C2: once SIGINT has been delivered in steady state, start() eventually
\* returns Ok: every blocking join of the shutdown sequence completes.
C2_ShutdownTerminates ==
    (hpc \notin {"unset", "armed"}) ~> (pc = "returned" /\ result = "Ok")

\* C2 witness: SIGINT was delivered and start() has returned Ok.
C2_Witness == hpc = "done" /\ pc = "returned" /\ result = "Ok"

\* C3 as stated: when start() has returned Ok, no thread the daemon spawned
\* is still running: the network listener threads, the service-listener
\* thread, both dispatch loops and the interconnect have exited.
C3_NoThreadLeft ==
    (pc = "returned" /\ result = "Ok") =>
        /\ \A e \in network_listeners : listenerState[e] = "exited"
        /\ svcPc = "exited"
        /\ alive \cap {"circuit_loop", "network_loop", "interconnect"} = {}

\* C4: the connection manager's shutdown is signalled only after
\* peer_manager.await_shutdown() has returned, with the peer manager gone,
\* and the Mesh's only after connection_manager.await_shutdown() has
\* returned, with the connection manager gone.
C4_MeshOutlivesConnectionManagerOutlivesPeerManager ==
    /\ "connection_manager" \in signalled =>
          /\ Past("peer_manager_await")
          /\ "peer_manager" \in signalled
          /\ "peer_manager" \notin alive
    /\ "mesh" \in signalled =>
          /\ Past("connection_manager_await")
          /\ "connection_manager" \notin alive

\* C4 witness: the Mesh's shutdown has been signalled.
C4_Witness == "mesh" \in signalled /\ "connection_manager" \in signalled

\* C5 as stated: the peer manager's shutdown is signalled only when the
\* interconnect and both dispatch loops have stopped running.
C5_PeerManagerOutlivesSenders ==
    "peer_manager" \in signalled =>
        alive \cap {"interconnect", "circuit_loop", "network_loop"} = {}

\* C6 as stated: in a network listener's accept loop a ProtocolError leaves
\* the listener accepting, and an IoError terminates the listener.
C6_AcceptErrors ==
    \A e \in EndpointSet :
        /\ lastAccept[e] = "ProtocolError" => listenerState[e] = "accepting"
        /\ lastAccept[e] = "IoError" => listenerState[e] = "exited"

\* C7 as stated: start() returns Ok only after the Mesh's shutdown was
\* signalled, and returns Err whenever a step of startup failed, the accept
\* of an internal service connection included.
C7_StartResult ==
    pc = "returned" =>
        /\ result = "Ok" => "mesh" \in signalled
        /\ failedStep # "none" => result \in StartErrors
        /\ svcResult = "TransportError" => result \in StartErrors

\* The fields C8 names.
C8_NamedFields ==
    { "heartbeat", "node_id", "state_dir", "network_endpoints",
      "advertised_endpoints", "initial_peers", "display_name",
      "rest_api_endpoint", "registry_auto_refresh", "registry_forced_refresh",
      "strict_ref_counts" }

\* C8: build() returns a SplinterDaemon if and only if every one of the
\* eleven named fields has been set, whatever the order of the setters;
\* otherwise it returns MissingRequiredField and constructs no daemon.
C8_BuildIffAllSet ==
    buildResult # "none" =>
        /\ (buildResult = "Ok") <=> (\A f \in C8_NamedFields : builder[f] # None)
        /\ buildResult # "Ok" => buildResult = "MissingRequiredField"
        /\ daemon.built <=> buildResult = "Ok"

\* C8 witness: build() refused a builder in which only one field is missing.
C8_Witness ==
    /\ buildResult = "MissingRequiredField"
    /\ Cardinality({ f \in BuilderFields : builder[f] # None }) = Len(RequiredFields) - 1

\* C9: when binding a network endpoint or an internal inproc endpoint
\* fails, start() returns TransportError and the connection manager, the
\* peer manager, the dispatch loops and every listener thread are unstarted.
C9_BindFailureAborts ==
    failedStep \in {"listen_network", "listen_internal"} =>
        /\ pc = "returned"
        /\ result = "TransportError"
        /\ alive = {}
        /\ svcPc = "unspawned"
        /\ \A e \in EndpointSet : listenerState[e] = "unspawned"

\* C9 witness: the listen on an internal endpoint failed after the network
\* endpoints were bound.
C9_Witness == failedStep = "listen_internal" /\ network_listeners # {}

\* C10 as stated: every internal endpoint the daemon listens on or connects
\* to has an entry under the same URI in the in-process authorizer's map.
C10_InternalEndpointsAuthorized ==
    inproc_ids # << >> =>
        \A uri \in Range(internal_service_listeners) \cup connected :
            \E i \in 1..Len(inproc_ids) : inproc_ids[i][1] = uri

\* The step is the drop of a live PeerRef for key k.
IsDropOf(k) ==
    /\ live_refs'[k] = live_refs[k] - 1
    /\ pm_last'.op \in {"drop", "add_peer_drop"}
    /\ pm_last'.key = k

\* The step is an add_peer that returned a PeerRef for key k.
IsAddPeerOf(k) ==
    /\ live_refs'[k] = live_refs[k] + 1
    /\ pm_last'.op = "add_peer"
    /\ pm_last'.key = k

\* C11: for every peer key, the peer manager's reference count equals the
\* number of live PeerRefs for it, whatever add_peer, add_unidentified_peer
\* and PeerRef drops happened; and an add_peer for a peer already in the
\* table coalesces into that peer and raises its count by exactly one.
C11_RefCountIsLiveRefs ==
    /\ [](\A k \in PeerKeys : refcount(k) = live_refs[k])
    /\ [][\A k \in PeerKeys :
             (IsAddPeerOf(k) /\ k \in DOMAIN peers) =>
                 /\ DOMAIN peers' = DOMAIN peers
                 /\ peers'[k].n = peers[k].n + 1]_vars

\* C11 witness: a second add_peer for B coalesced into the B of the table.
C11_Witness ==
    /\ pm_last.op = "add_peer"
    /\ pm_last.key = "B"
    /\ "B" \in DOMAIN pm_last.before
    /\ live_refs["B"] = 2

\* C12: a peer is in the peer table exactly while a PeerRef for it is
\* live; the drop of a PeerRef that is not the last one keeps the peer and
\* leaves its connection as it is, and the drop of the last one removes the
\* peer from the table.
C12_PeerKeptWhileReferenced ==
    /\ [](\A k \in PeerKeys : k \in DOMAIN peers <=> live_refs[k] > 0)
    /\ [][\A k \in PeerKeys :
             IsDropOf(k) =>
                 IF live_refs[k] >= 2
                 THEN /\ k \in DOMAIN peers'
                      /\ peers'[k].connection = peers[k].connection
                 ELSE k \notin DOMAIN peers']_vars

\* C12 witness: one of two PeerRefs for B was dropped and B is still in the
\* table.
C12_Witness ==
    /\ pm_last.op = "drop"
    /\ pm_last.key = "B"
    /\ pm_last.before = [k \in {"B"} |-> 2]
    /\ "B" \in DOMAIN peers

\* C13: under strict ref counts, add_peer(P) followed by the drop of the
\* PeerRef it returned leaves the peer table (the peers and their counts)
\* as it was before the add_peer.
C13_AddThenDropRestoresTable ==
    (pm_strict = "true" /\ pm_last.op = "add_peer_drop") =>
        PeerTable = pm_last.before

\* C13 witness: an add_peer and the drop of its PeerRef happened on a table
\* that held two peers.
C13_Witness ==
    /\ pm_strict = "true"
    /\ pm_last.op = "add_peer_drop"
    /\ Cardinality(DOMAIN pm_last.before) = 2

\* C14: the peer manager runs with the strict_ref_counts given to the
\* daemon builder; no reference count is negative; a release at count zero
\* aborts the peer manager when strict_ref_counts is true, and is logged
\* with the count staying 0 when it is false.
C14_StrictRefCountsPolicy ==
    /\ "peer_manager" \in alive => pm_strict = builder["strict_ref_counts"]
    /\ \A k \in DOMAIN peers : peers[k].n >= 0
    /\ pm_fatal => builder["strict_ref_counts"] = "true"
    /\ pm_last.op = "release_at_zero" =>
           IF builder["strict_ref_counts"] = "true"
           THEN pm_fatal
           ELSE ~pm_fatal /\ pm_logged /\ refcount(pm_last.key) = 0

\* C14 witness: a daemon built with strict_ref_counts = true whose peer
\* manager aborted on a release at count zero.
C14_Witness ==
    /\ builder["strict_ref_counts"] = "true"
    /\ pm_last.op = "release_at_zero"
    /\ pm_fatal

\* The payloads of connection c that are sent and not yet received, oldest
\* first: in the remote consumer queue, on the wire, in the outgoing queue.
InFlight(c) == PayloadsOf(mesh_incoming, c) \o mesh_wire[c] \o mesh_outgoing[c]

\* Sequence s is a prefix of sequence t.
IsPrefix(s, t) == Len(s) <= Len(t) /\ SubSeq(t, 1, Len(s)) = s

PosIn(log, ev) == IndexOf(log, ev)

\* The handlers of a loop run one at a time: its log is a sequence of
\* pairs, the invocation of a handler and then its completion.
Serial(log) ==
    \A k \in 1..Len(log) :
        IF k % 2 = 1 THEN log[k][1] = "invoke"
        ELSE log[k] = << "complete", log[k - 1][2] >>

\* The envelopes enqueued on the circuit loop before envelope i was: the
\* CIRCUIT envelopes whose network handler completed before that of i.
ForwardedBefore(i) ==
    { j \in 1..Len(arrived) :
        /\ arrived[j].type = "CIRCUIT"
        /\ PosIn(net_log, << "complete", j >>) > 0
        /\ PosIn(net_log, << "complete", j >>) < PosIn(net_log, << "complete", i >>) }

\* C16: in each dispatch loop the handlers run strictly one at a time, and
\* when the handler of an envelope is invoked, the handler of every
\* envelope enqueued earlier on that loop from the same source has been
\* invoked and has completed.
C16_SerialInArrivalOrder ==
    /\ Serial(net_log)
    /\ Serial(circuit_log)
    /\ \A k \in 1..Len(net_log) :
          net_log[k][1] = "invoke" =>
              \A j \in 1..(net_log[k][2] - 1) :
                  arrived[j].source = arrived[net_log[k][2]].source =>
                      /\ PosIn(net_log, << "complete", j >>) > 0
                      /\ PosIn(net_log, << "complete", j >>) < k
    /\ \A k \in 1..Len(circuit_log) :
          circuit_log[k][1] = "invoke" =>
              \A j \in ForwardedBefore(circuit_log[k][2]) :
                  arrived[j].source = arrived[circuit_log[k][2]].source =>
                      /\ PosIn(circuit_log, << "complete", j >>) > 0
                      /\ PosIn(circuit_log, << "complete", j >>) < k

\* C16 witness: the network loop handled two envelopes of the same source,
\* the one that arrived first before the other.
C16_Witness ==
    /\ Len(net_log) = 4
    /\ Len(arrived) = 2
    /\ arrived[1].source = arrived[2].source
    /\ net_log[1] = << "invoke", 1 >>

\* C17: every CIRCUIT message the network dispatcher handled is, unwrapped,
\* in the circuit loop's channel or with a circuit handler; and when a
\* circuit handler is invoked for a message, every CIRCUIT message that
\* arrived earlier on the same connection has been given to its circuit
\* handler before.
C17_CircuitHandOffFifo ==
    /\ \A i \in 1..Len(arrived) :
          (arrived[i].type = "CIRCUIT" /\ PosIn(net_log, << "complete", i >>) > 0) =>
              \/ \E k \in 1..Len(circuit_queue) : circuit_queue[k] = i
              \/ PosIn(circuit_log, << "invoke", i >>) > 0
    /\ \A k \in 1..Len(circuit_log) :
          LET i == circuit_log[k][2] IN
              /\ arrived[i].type = "CIRCUIT"
              /\ Unwrap(arrived[i]).type = arrived[i].inner.type
              /\ circuit_log[k][1] = "invoke" =>
                    \A j \in 1..(i - 1) :
                        (arrived[j].type = "CIRCUIT"
                         /\ arrived[j].source = arrived[i].source) =>
                            /\ PosIn(circuit_log, << "invoke", j >>) > 0
                            /\ PosIn(circuit_log, << "invoke", j >>) < k

\* C17 witness: two CIRCUIT messages of the same connection reached their
\* circuit handlers.
C17_Witness ==
    /\ Len(circuit_log) = 4
    /\ arrived[1].source = arrived[2].source
    /\ circuit_log[3] = << "invoke", 2 >>

C19_ServiceConnectIdempotent ==
    rt_last.count = 2 =>
        /\ RoutingTable = rt_last.after
        /\ rt_last.req.circuit \in DOMAIN circuits =>
              /\ rt_last.req.service \in circuits[rt_last.req.circuit].roster
              /\ Cardinality({ s \in circuits[rt_last.req.circuit].roster :
                                 s = rt_last.req.service }) = 1
              /\ Routed(rt_last.req.circuit, rt_last.req.service)

\* C19 witness: the same request was handled twice on a known circuit.
C19_Witness ==
    /\ rt_last.count = 2
    /\ rt_last.req.circuit \in DOMAIN circuits

\* The step completes the circuit handler of a message addressed to a
\* (circuit, service) the routing table does not have: a direct message or
\* a disconnect for a service that is not routed, or any request on a
\* circuit that is not in the table.
HandlesUnknownAddress(i, m) ==
    /\ circuit_running = << i >>
    /\ circuit_running' = << >>
    /\ ~Routed(m.circuit, m.service)
    /\ \/ m.type \in {"CIRCUIT_DIRECT_MESSAGE", "SERVICE_DISCONNECT_REQUEST"}
       \/ m.circuit \notin DOMAIN circuits

\* C20: the handler of a circuit message addressed to a (circuit, service)
\* that is not in the routing table sends a CIRCUIT_ERROR, of kind
\* UNKNOWN_SERVICE when the circuit is known, back to the source of the
\* message, closes no connection and leaves the routing table as it is.
C20_UnknownServiceAnswered ==
    [][\A i \in 1..Len(arrived) :
          HandlesUnknownAddress(i, Unwrap(arrived[i])) =>
              /\ [re |-> i, to |-> arrived[i].source, type |-> "CIRCUIT_ERROR",
                  kind |-> IF arrived[i].inner.circuit \in DOMAIN circuits
                           THEN "UNKNOWN_SERVICE" ELSE "UNKNOWN_CIRCUIT"]
                     \in outbox'
              /\ circuits' = circuits
              /\ services' = services
              /\ disp_closed' = disp_closed]_vars

\* C20 witness: a direct message for a service unknown on the known circuit
\* c1 was answered with CIRCUIT_ERROR of kind UNKNOWN_SERVICE.
C20_Witness ==
    \E r \in outbox :
        /\ r.type = "CIRCUIT_ERROR"
        /\ r.kind = "UNKNOWN_SERVICE"
        /\ arrived[r.re].inner.type = "CIRCUIT_DIRECT_MESSAGE"
        /\ r.to = arrived[r.re].source

\* C21: a connection is in the Mesh or known to the peer manager only after
\* its handshake completed successfully, so none that is NEW, AUTHORIZING or
\* AUTH_FAILED is; and a connection whose handshake failed, for whichever of
\* the four causes, is AUTH_FAILED and closed, and no payload was ever sent
\* on it.
C21_OnlyAuthorizedConnectionsVisible ==
    \A c \in Connections :
        /\ c \in mesh_known \cup pm_known
              => mesh_conn[c] \in { "AUTHORIZED", "FAILED", "CLOSED" }
        /\ c \in mesh_known \cup pm_known => auth_cause[c] = "none"
        /\ auth_cause[c] # "none"
              => /\ mesh_conn[c] = "AUTH_FAILED"
                 /\ c \in conn_closed
                 /\ mesh_sent[c] = << >>
        /\ mesh_conn[c] = "AUTH_FAILED" => auth_cause[c] \in AuthFailures

\* One handshake failed and is closed while the other connection, its
\* handshake complete, is in the Mesh, known to the peer manager, and used.
C21_Witness ==
    /\ mesh_conn["c1"] = "AUTH_FAILED"
    /\ auth_cause["c1"] = "unknown identity"
    /\ "c1" \in conn_closed
    /\ mesh_conn["c2"] = "AUTHORIZED"
    /\ "c2" \in mesh_known \cap pm_known
    /\ mesh_received # << >>

\* C22: a step changes a service record only by NEW -> STARTED or
\* STOPPED -> STARTED (initialize_service), STARTED -> STOPPED
\* (shutdown_service or a processor failure) or STOPPED -> DESTROYED
\* (destroy_service); a DESTROYED record never changes; and destroy_service
\* on a record that is not STOPPED leaves every record as it was.
C22_RecordTransitions ==
    [][ /\ \A s \in OrchServices :
             records'[s] # records[s] =>
                 /\ orch_last'.svc = s
                 /\ << records[s], orch_last'.op, records'[s] >> \in
                        { << "NEW", "initialize_service", "STARTED" >>,
                          << "STOPPED", "initialize_service", "STARTED" >>,
                          << "STARTED", "shutdown_service", "STOPPED" >>,
                          << "STARTED", "processor_failure", "STOPPED" >>,
                          << "STOPPED", "destroy_service", "DESTROYED" >> }
        /\ \A s \in OrchServices :
             records[s] = "DESTROYED" => records'[s] = "DESTROYED"
        /\ ( /\ orch_last' # orch_last
             /\ orch_last'.op = "destroy_service"
             /\ orch_last'.before # "STOPPED" )
              => records' = records
      ]_vars

\* destroy_service was refused on a started service, which is still STARTED,
\* while the other service, stopped by a processor failure, was destroyed.
C22_Witness ==
    /\ orch_last = [op |-> "destroy_service", svc |-> "s1",
                    before |-> "STARTED", ok |-> FALSE]
    /\ records["s1"] = "STARTED"
    /\ records["s2"] = "DESTROYED"
    /\ rec_cause["s2"] = "panic"

\* C23: with h the heartbeat interval the daemon was built with, the
\* heartbeat rounds are h apart and none is skipped, and each sends a
\* HEARTBEAT to every AUTHORIZED connection; a round marks FAILED every
\* AUTHORIZED connection that has been silent for 3 x h, so that none stays
\* AUTHORIZED beyond that past the next round, and every subscriber is
\* notified of each failed connection; and a connection is marked FAILED
\* only when it has been silent for 3 x h.
C23_HeartbeatAndFailureDetection ==
    /\ [] ( PacemakerRunning =>
              LET h == Seconds(daemon.heartbeat) IN
              /\ hb_now <= hb_due
              /\ hb_due <= hb_now + h
              /\ \A c \in Connections :
                    /\ mesh_conn[c] = "AUTHORIZED"
                          => Silence(c) < SilentIntervals * h + h
                    /\ mesh_conn[c] = "FAILED"
                          => Subscribers \X {c} \subseteq hb_notified )
    /\ [][ LET h == Seconds(daemon.heartbeat) IN
           /\ hb_due' # hb_due =>
                /\ hb_now = hb_due
                /\ hb_due' = hb_due + h
                /\ \A c \in Connections :
                      mesh_conn[c] = "AUTHORIZED" =>
                         /\ hb_sent'[c] = hb_sent[c] + 1
                         /\ Silence(c) >= SilentIntervals * h
                               => mesh_conn'[c] = "FAILED"
           /\ \A c \in Connections :
                 ( mesh_conn[c] # "FAILED" /\ mesh_conn'[c] = "FAILED" )
                     => /\ mesh_conn[c] = "AUTHORIZED"
                        /\ Silence(c) >= SilentIntervals * h
         ]_vars

\* With an interval of 2 seconds: one connection, silent for 6 seconds, has
\* been marked FAILED and both subscribers notified, while the other, on
\* which traffic was seen 4 seconds ago, has been sent its heartbeats and is
\* still AUTHORIZED.
C23_Witness ==
    /\ daemon.heartbeat = "2"
    /\ hb_interval = 2
    /\ mesh_conn["c1"] = "FAILED"
    /\ Subscribers \X {"c1"} \subseteq hb_notified
    /\ hb_last = [at |-> 6, sent_to |-> {"c1", "c2"}, failed |-> {"c1"}]
    /\ mesh_conn["c2"] = "AUTHORIZED"
    /\ hb_last_seen["c2"] = 2
    /\ hb_sent["c2"] = 4

\* Envelope i is in channel q.
Queued(q, i) == \E k \in 1..Len(q) : q[k] = i

\* C24: a handler error leaves both dispatch loops running and is in the
\* loop's log; the handler of an envelope is invoked only after those of
\* the envelopes enqueued before it on that loop, whether they completed or
\* returned an error; and every envelope in a loop's channel is eventually
\* given to its handler.
C24_HandlerErrorDoesNotStopLoop ==
    /\ [] ( /\ ( \E k \in 1..Len(net_log) : net_log[k][1] = "error" )
                  => "network_loop" \in alive
            /\ ( \E k \in 1..Len(circuit_log) : circuit_log[k][1] = "error" )
                  => "circuit_loop" \in alive
            /\ \A k \in 1..Len(net_log) :
                  net_log[k][1] = "invoke" =>
                      \A j \in 1..(net_log[k][2] - 1) :
                          /\ PosIn(net_log, << "invoke", j >>) > 0
                          /\ PosIn(net_log, << "invoke", j >>) < k
            /\ \A k \in 1..Len(circuit_log) :
                  circuit_log[k][1] = "invoke" =>
                      \A j \in ForwardedBefore(circuit_log[k][2]) :
                          /\ PosIn(circuit_log, << "invoke", j >>) > 0
                          /\ PosIn(circuit_log, << "invoke", j >>) < k )
    /\ [][ /\ net_log' # net_log /\ net_log'[Len(net_log')][1] = "error"
                => "network_loop" \in alive' /\ net_running' = << >>
           /\ circuit_log' # circuit_log
                /\ circuit_log'[Len(circuit_log')][1] = "error"
                => "circuit_loop" \in alive' /\ circuit_running' = << >>
         ]_vars
    /\ \A i \in 1..MaxEnvelopes :
          /\ Queued(net_queue, i) ~> PosIn(net_log, << "invoke", i >>) > 0
          /\ Queued(circuit_queue, i) ~> PosIn(circuit_log, << "invoke", i >>) > 0

\* The handler of the first envelope returned an error in the network
\* loop; the handler of the second was invoked after it and gave its CIRCUIT
\* message to the circuit loop, whose handler was invoked in turn.
C24_Witness ==
    /\ Len(net_log) >= 3
    /\ net_log[2] = << "error", 1 >>
    /\ net_log[3] = << "invoke", 2 >>
    /\ PosIn(circuit_log, << "invoke", 2 >>) > 0

\* The texts among AdminKeysTexts that are a JSON list of strings.
JsonStringLists == { EmptyListText, OneKeyText, TwoKeysText }

\* C25: whenever create returned a service, for whichever service id, type
\* and peer_services it was called with, service_id() of that service is the
\* service_id argument of the call.
C25_CreatedServiceHasGivenId ==
    fc_result.kind = "Ok" => service_id(fc_result.service) = fc_call.service_id

\* The call of the factory's test: factory new(Some("/tmp"), Some(1024 *
\* 1024)), create("0", "", ["1", "2", "3"], {admin_keys: "[]"}).
C25_Witness ==
    /\ fc_factory = [made |-> TRUE, db_dir |-> "/tmp", db_size |-> 1024 * 1024]
    /\ fc_call.service_id = "0"
    /\ fc_call.service_type = ""
    /\ fc_call.peer_services = << "1", "2", "3" >>
    /\ fc_call.args = [a \in {"admin_keys"} |-> EmptyListText]
    /\ fc_result.kind = "Ok"
    /\ fc_result.service.peer_services = { "1", "2", "3" }

\* C26: create returns InvalidArguments, having constructed no service, when
\* args has no admin_keys or its value is not a JSON list of strings;
\* otherwise it constructs the service once and returns CreationFailed when
\* that fails and the service when it does not.
C26_CreateResults ==
    fc_result.kind # "none" =>
        IF "admin_keys" \notin DOMAIN fc_call.args
        THEN /\ fc_result.kind = "InvalidArguments"
             /\ fc_result.msg = "admin_keys argument not specified"
             /\ fc_result.constructions = 0
        ELSE IF fc_call.args["admin_keys"] \notin JsonStringLists
        THEN /\ fc_result.kind = "InvalidArguments"
             /\ fc_result.msg = "failed to parse admin_keys list"
             /\ fc_result.constructions = 0
        ELSE IF ~fc_call.db_ok
        THEN /\ fc_result.kind = "CreationFailed"
             /\ fc_result.constructions = 1
        ELSE /\ fc_result.kind = "Ok"
             /\ fc_result.service # NoService
             /\ fc_result.constructions = 1

\* create was called without admin_keys, its other arguments fit to
\* construct the service, and returned InvalidArguments.
C26_Witness ==
    /\ fc_call.args = [a \in {"version"} |-> << "1" >>]
    /\ fc_call.db_ok
    /\ fc_result.kind = "InvalidArguments"

\* C27: whenever create_key_pair returned Ok, the value it returned is the
\* hex text of the public key, the text it wrote (with a newline after it)
\* to the public key file.
C27_ReturnsHexWrittenToFile ==
    kg_result.kind = "Ok" =>
        /\ kg_result.value = AsHex(kg_keys.public)
        /\ kg_written = kg_result.value \o << Newline >>

\* What start() builds a component on: the components whose connector or
\* sender its builder is given.
DependsOn(c) ==
    CASE c = "peer_manager" -> { "connection_manager" }
      [] c = "interconnect" -> { "peer_manager" }
      [] c = "circuit_loop" -> { "interconnect" }
      [] c = "network_loop" -> { "interconnect", "circuit_loop" }
      [] OTHER -> {}

\* C28: when start() starts the connection manager, every network listener
\* and every internal service listener is bound; and when it starts the
\* peer manager, the interconnect, the circuit dispatch loop or the network
\* dispatch loop, the components that one is built on (the connection
\* manager; the peer manager; the interconnect; the interconnect and the
\* circuit dispatch loop) are running.
C28_DependencyOrder ==
    [][ \A c \in { "connection_manager", "peer_manager", "interconnect",
                   "circuit_loop", "network_loop" } :
          ( c \notin alive /\ c \in alive' ) =>
              /\ daemon.built
              /\ DependsOn(c) \subseteq alive
              /\ c = "connection_manager" =>
                    /\ network_listeners = Range(network_endpoints)
                    /\ internal_service_listeners = InternalListenEndpoints
      ]_vars

\* start() has built the network dispatch loop, the last of the five.
C28_Witness ==
    /\ pc = "spawn_listeners"
    /\ { "connection_manager", "peer_manager", "interconnect", "circuit_loop",
         "network_loop" } \subseteq alive
    /\ network_listeners # {}

\* The step completes the handler of circuit message i.
CompletesHandler(i) ==
    /\ circuit_running = << i >>
    /\ circuit_running' = << >>

\* C29: of the five circuit handlers the service-connect and the
\* service-disconnect handler, and no other, hold a routing table writer;
\* and the step that completes the handler of a CIRCUIT_DIRECT_MESSAGE, a
\* CIRCUIT_ERROR or an ADMIN_DIRECT_MESSAGE leaves both maps of the routing
\* table as they were.
C29_OnlyConnectHandlersWrite ==
    /\ [] ( \A t \in CircuitHandlers :
               /\ "reader" \in RoutingCapabilities(t)
               /\ "writer" \in RoutingCapabilities(t) <=>
                     t \in { "SERVICE_CONNECT_REQUEST",
                             "SERVICE_DISCONNECT_REQUEST" } )
    /\ [][ \A i \in 1..Len(arrived) :
             ( /\ CompletesHandler(i)
               /\ arrived[i].inner.type \in
                     { "CIRCUIT_DIRECT_MESSAGE", "CIRCUIT_ERROR_MESSAGE",
                       "ADMIN_DIRECT_MESSAGE" } )
                => /\ circuits' = circuits
                   /\ services' = services
         ]_vars

\* A service was connected and routed, and an ADMIN_DIRECT_MESSAGE addressed
\* to it was then passed on, the route still in the table.
C29_Witness ==
    /\ Len(arrived) = 2
    /\ arrived[1].inner.type = "SERVICE_CONNECT_REQUEST"
    /\ arrived[2].inner.type = "ADMIN_DIRECT_MESSAGE"
    /\ PosIn(circuit_log, << "complete", 2 >>) > 0
    /\ Routed("c1", "s1")
    /\ \E r \in outbox : r.re = 2 /\ r.type = "ADMIN_DIRECT_MESSAGE"

\* The two internal connections start() makes with every set of features.
InternalConnections == { "inproc://orchestator", "inproc://admin-service" }

\* The service-listener thread is done with the listener of uri.
DoneWith(uri) ==
    \/ svcPc = "exited"
    \/ /\ svcPc \notin { "unspawned", "exited" }
       /\ IndexOf(internal_service_listeners, uri)
             < IndexOf(internal_service_listeners, svcPc)

\* C30: while the service-listener thread waits at a listener with nothing
\* to accept, start() is still to connect to that listener or has returned;
\* and, the two threads being scheduled, start() returns (a startup step
\* failed, or the daemon was shut down) or both its connects have returned
\* and the thread is done with both listeners, each connection handed to
\* the connection manager unless accepting or adding it failed.
C30_NoStartupDeadlock ==
    /\ [] ( \A uri \in InternalConnections :
              ( ProcessRunning /\ svcPc = uri /\ uri \notin pending )
                  => /\ uri \notin connected
                     /\ pc \in { "connect_orchestrator", "connect_admin" } )
    /\ [] ( \A uri \in InternalConnections :
              uri \in inbound => uri \in connected /\ DoneWith(uri) )
    /\ <> ( \/ pc = "returned"
            \/ /\ InternalConnections \subseteq connected
               /\ \A uri \in InternalConnections : DoneWith(uri) )

\* Both connections were made while the thread waited at the admin-service
\* listener, and both were accepted and handed to the connection manager.
C30_Witness ==
    /\ ProcessRunning
    /\ InternalConnections \subseteq connected
    /\ InternalConnections \subseteq inbound
    /\ pending = {}
    /\ svcPc \notin InternalConnections

\* The internal listeners in the order the thread serves them.
InternalListenerOrder ==
    << "inproc://admin-service", "inproc://orchestator" >>
    \o (IF health THEN << "inproc://health_service" >> ELSE << >>)

\* C31: the service-listener thread serves the internal listeners in the
\* order admin-service, orchestrator and, with feature "health", health,
\* taking one item from each; a connection it accepts goes to the
\* connection manager; when add_inbound_connection fails the connection is
\* not added and the thread goes on to the next listener; an accept error
\* is the last thing the thread does, and its closure returns a
\* TransportError.
C31_ServiceListenerOrder ==
    /\ Len(svc_log) <= Len(internal_service_listeners)
    /\ internal_service_listeners \in { << >>, InternalListenerOrder }
    /\ \A i \in 1..Len(svc_log) :
          /\ svc_log[i][1] = InternalListenerOrder[i]
          /\ svc_log[i][2] = "added" <=> svc_log[i][1] \in inbound
          /\ svc_log[i][2] = "accept_error"
                => /\ i = Len(svc_log)
                   /\ svcPc = "exited"
                   /\ svcResult = "TransportError"
          /\ ( svc_log[i][2] # "accept_error" /\ i = Len(svc_log) )
                => /\ svcPc = After(internal_service_listeners, svc_log[i][1], "exited")
                   /\ svcResult = (IF i = Len(internal_service_listeners)
                                   THEN "Ok" ELSE "none")
    /\ inbound \subseteq { svc_log[i][1] : i \in 1..Len(svc_log) }

\* With feature "health": adding the admin-service connection failed, and
\* the thread went on to accept and add the other two.
C31_Witness ==
    /\ health
    /\ svc_log = << << "inproc://admin-service", "add_failed" >>,
                    << "inproc://orchestator", "added" >>,
                    << "inproc://health_service", "added" >> >>
    /\ svcResult = "Ok"

\* The thread of endpoint e is spawned and still in its accept loop.
Accepting(e) == listenerState[e] = "accepting"

\* C32: the thread of a network endpoint has left its accept loop exactly
\* when an add_inbound_connection of it has failed, which happens at most
\* once; it is still in its accept loop after
\* every connection it added to the connection manager; it leaves the
\* loop only in an iteration that accepted a connection whose
\* add_inbound_connection failed; from then on it accepts nothing and adds
\* nothing more; and the step in which it leaves changes nothing of the
\* threads of the other endpoints.
C32_ListenerExitsOnAddError ==
    /\ [] ( \A e \in EndpointSet :
               /\ add_errors[e] <= 1
               /\ add_errors[e] = 1 <=> listenerState[e] = "exited" )
    /\ [][ \A e \in EndpointSet :
             /\ accepted'[e] > accepted[e] => Accepting(e)'
             /\ ( Accepting(e) /\ ~Accepting(e)' )
                   => /\ listenerState'[e] = "exited"
                      /\ lastAccept'[e] = "Ok"
                      /\ add_errors'[e] = add_errors[e] + 1
                      /\ accepted'[e] = accepted[e]
                      /\ \A o \in EndpointSet \ {e} :
                            /\ listenerState'[o] = listenerState[o]
                            /\ accepted'[o] = accepted[o]
                            /\ lastAccept'[o] = lastAccept[o]
             /\ listenerState[e] = "exited"
                   => /\ listenerState'[e] = "exited"
                      /\ accepted'[e] = accepted[e]
                      /\ lastAccept'[e] = lastAccept[e]
         ]_vars

\* The thread of one endpoint added a connection and then left its loop on
\* a failed add, and the thread of the other endpoint, still accepting, has
\* added a connection.
C32_Witness ==
    /\ listenerState["tcps://0.0.0.0:8044"] = "exited"
    /\ accepted["tcps://0.0.0.0:8044"] = 1
    /\ Accepting("tcp://0.0.0.0:8045")
    /\ accepted["tcp://0.0.0.0:8045"] = 1

\* The steps of start() up to and including the loop over the initial peers.
StepsToInitialPeers ==
    { "build", "storage", "listen_network", "listen_internal", "authorizers",
      "connection_manager", "peer_manager", "listen_for_services",
      "connect_orchestrator", "connect_admin", "connect_health", "interconnect",
      "circuit_loop", "network_loop", "spawn_listeners", "initial_peers" }

\* The positions of the initial peers that were added successfully.
AddedInitialPeers == (1..Len(self_initial_peers)) \ connect_errors

StepsAfterConnectionManager ==
    { "peer_manager", "connect_orchestrator", "connect_admin", "connect_health",
      "interconnect", "circuit_loop", "network_loop", "orchestrator", "registry",
      "admin_service", "auth_configs", "health_service", "rest_api", "start_admin" }

\* C34: when start() has returned an error from a step after the start of
\* the connection manager, no component it started is running, the
\* service-listener thread is not accepting, and no network listener
\* thread is accepting.
C34_FailedStartLeavesNothingRunning ==
    ( pc = "returned" /\ failedStep \in StepsAfterConnectionManager )
        => /\ alive = {}
           /\ svcPc \in { "unspawned", "exited" }
           /\ \A e \in EndpointSet : listenerState[e] # "accepting"

\* start() got past its storage setup.
StorageSetUp == pc # "storage" /\ failedStep # "storage"

\* Nothing is bound and no thread or component is started.
NothingStarted ==
    /\ network_listeners = {}
    /\ internal_service_listeners = << >>
    /\ alive = {}
    /\ svcPc = "unspawned"
    /\ \A e \in EndpointSet : listenerState[e] = "unspawned"

\* C35: when start() gets past its storage setup, storage_type is "yaml"
\* and the store is the YAML store on circuits.yaml and
\* circuit_proposals.yaml under state_dir, or it is "memory" and the store
\* is that of a store factory made from "memory" after, and apart from, the
\* one made from db_url, or no storage type is set, feature "database" is
\* compiled in and the store is that of the db_url store factory.  With
\* any other storage type, and with none and no feature "database", start()
\* returns a StorageError from the storage setup; and whenever it returns
\* from the storage setup, nothing is bound and nothing is started.
C35_AdminServiceStoreChoice ==
    /\ StorageSetUp =>
         CASE options.storage_type = "yaml" ->
                /\ admin_service_store.kind = "yaml"
                /\ admin_service_store.files =
                      << << state_dir, "circuits.yaml" >>,
                         << state_dir, "circuit_proposals.yaml" >> >>
           [] options.storage_type = "memory" ->
                /\ admin_service_store.kind = "memory"
                /\ admin_service_store.factory = Len(admin_service_store.factories)
                /\ admin_service_store.factories[admin_service_store.factory] = "memory"
                /\ features # {} => admin_service_store.factory = 2
           [] options.storage_type = None ->
                /\ "database" \in features
                /\ admin_service_store.kind = "database"
                /\ admin_service_store.factory = 1
                /\ admin_service_store.factories = << options.db_url >>
           [] OTHER -> FALSE
    /\ ( pc # "storage"
         /\ \/ options.storage_type \notin { None, "yaml", "memory" }
            \/ options.storage_type = None /\ "database" \notin features )
          => failedStep = "storage" /\ result = "StorageError"
    /\ failedStep = "storage"
          => pc = "returned" /\ result = "StorageError" /\ NothingStarted

\* A daemon with a PostgreSQL db_url and storage type "memory" has set up
\* its storage and bound its listeners.
C35_Witness ==
    /\ options.storage_type = "memory"
    /\ options.db_url = "postgres://db"
    /\ admin_service_store.factories = << "postgres://db", "memory" >>
    /\ admin_service_store.factory = 2
    /\ pc = "authorizers"

\* start() got past the OAuth configuration.
AuthConfigured ==
    pc \notin (StepsToInitialPeers
               \cup { "orchestrator", "registry", "admin_service", "auth_configs" })
    /\ failedStep \notin (StepsToInitialPeers
               \cup { "orchestrator", "registry", "admin_service", "auth_configs" })

\* The four OAuth settings that make start() configure OAuth.
OAuthSettings(o) ==
    { o.oauth_provider, o.oauth_client_id, o.oauth_client_secret,
      o.oauth_redirect_url }

\* The OAuth settings are complete: all four are set, the provider is one
\* start() knows, and azure and openid come with the discovery URL.
OAuthComplete(o) ==
    /\ None \notin OAuthSettings(o)
    /\ o.oauth_provider \in { "azure", "github", "google", "openid" }
    /\ o.oauth_provider \in { "azure", "openid" } => o.oauth_openid_url # None

\* C36: with feature "auth", when none of the four OAuth settings is set,
\* start() never fails at the OAuth configuration and, once past it, has
\* given the REST API the Cylinder auth config alone; when at least one is
\* set and the settings are not complete, start() returns a RestApiError
\* from the OAuth configuration when it gets there; when they are
\* complete, it does not fail there and the REST API is given an OAuth
\* config of the provider set.
C36_OAuthAllOrNothing ==
    /\ OAuthSettings(options) = { None } =>
          /\ failedStep # "auth_configs"
          /\ AuthConfigured => auth_configs = << CylinderAuthConfig >>
    /\ ( OAuthSettings(options) # { None } /\ ~OAuthComplete(options) ) =>
          /\ ~AuthConfigured
          /\ pc = "returned" =>
                \/ failedStep \in StepsToInitialPeers
                                   \cup { "orchestrator", "registry", "admin_service" }
                \/ failedStep = "auth_configs" /\ result = "RestApiError"
          /\ auth_configs = << >>
    /\ OAuthComplete(options) =>
          /\ failedStep # "auth_configs"
          /\ AuthConfigured =>
                /\ Len(auth_configs) = 2
                /\ auth_configs[2].kind = "OAuth"
                /\ auth_configs[2].provider = options.oauth_provider

\* The OpenID discovery URL alone is set: start() is past the OAuth
\* configuration, with no OAuth config added.
C36_Witness ==
    /\ OAuthSettings(options) = { None }
    /\ options.oauth_openid_url = "set"
    /\ auth_configs = << CylinderAuthConfig >>
    /\ pc = "rest_api"

\* File `path` of files starts with the line text.
StartsWithLine(files, path, text) ==
    /\ path \in DOMAIN files
    /\ Len(files[path]) > Len(text)
    /\ SubSeq(files[path], 1, Len(text) + 1) = text \o << Newline >>

\* C37: a call of create_key_pair without force_create on a key directory
\* that holds the private or the public key file returns an
\* EnvironmentError and leaves the directory as it was, no file changed and
\* none created; a call with force_create in which no step fails returns Ok
\* and leaves both files starting with the line of the key generated in
\* that call, whether or not they existed.
C37_ExistingKeyFilesKept ==
    [][ LET existed == \/ PrivateKeyPath \in DOMAIN kg_files
                       \/ PublicKeyPath \in DOMAIN kg_files
        IN  /\ ( ~kg_call'.force_create /\ existed )
                  => /\ kg_result'.kind = "EnvironmentError"
                     /\ kg_files' = kg_files
            /\ ( kg_call'.force_create /\ kg_call'.fail = "none" )
                  => /\ kg_result'.kind = "Ok"
                     /\ StartsWithLine(kg_files', PrivateKeyPath,
                                       AsHex(kg_keys'.private))
                     /\ StartsWithLine(kg_files', PublicKeyPath,
                                       AsHex(kg_keys'.public))
      ]_vars

\* Only the private key file existed (a call had failed at the public key
\* file), and a call without force_create in which nothing fails was
\* refused: the directory still holds that file only.
C37_Witness ==
    /\ ~kg_call.force_create
    /\ kg_call.fail = "none"
    /\ kg_result.kind = "EnvironmentError"
    /\ DOMAIN kg_files = { PrivateKeyPath }

\* C38: a call of create_key_pair that returns an error leaves the key
\* directory as it was: no key file created, none modified.
C38_ErrorLeavesNoFile ==
    [][ kg_result'.kind \notin { "Ok", "none" } => kg_files' = kg_files ]_vars

\* C39: a call of get with a header that is not an OAuth2 bearer token
\* returns Ok(None) and makes no lookup in the session store; a call with
\* an OAuth2 bearer token looks up that token, once, and returns an
\* InternalError when the lookup fails, the User whose id is the user id of
\* the session stored under that token when there is one, and Ok(None)
\* when there is none.
C39_UserOfOAuthBearerToken ==
    [][ oauth_user_session_store' = oauth_user_session_store =>
          LET a == oauth_call'.authorization
              res == oauth_result'
          IN  IF a.scheme = "Bearer" /\ a.token_kind = "OAuth2"
              THEN /\ res.lookups = << a.value >>
                   /\ oauth_call'.store_fails
                         => res.kind = "InternalError" /\ ~res.user.some
                   /\ ( ~oauth_call'.store_fails
                        /\ a.value \in DOMAIN oauth_user_session_store )
                         => /\ res.kind = "Ok"
                            /\ res.user.some
                            /\ res.user.id = oauth_user_session_store[a.value]
                   /\ ( ~oauth_call'.store_fails
                        /\ a.value \notin DOMAIN oauth_user_session_store )
                         => res.kind = "Ok" /\ ~res.user.some
              ELSE /\ res.kind = "Ok"
                   /\ ~res.user.some
                   /\ res.lookups = << >>
      ]_vars

\* Sessions of two users are stored, and a request with the OAuth2 bearer
\* token of the second was mapped to that user.
C39_Witness ==
    /\ oauth_user_session_store = [t \in AccessTokens |->
                                     IF t = "t1" THEN "u1" ELSE "u2"]
    /\ oauth_call.authorization =
          [scheme |-> "Bearer", token_kind |-> "OAuth2", value |-> "t2"]
    /\ oauth_result = [kind |-> "Ok", user |-> [some |-> TRUE, id |-> "u2"],
                       lookups |-> << "t2" >>]

\* n is less than 2^32, the number of values of a 32-bit usize (compared in
\* quarters: n \div 4 < 2^30).
FitsUsize32(n) == n >= 0 /\ n \div 4 < 2 ^ 30

\* C40: DEFAULT_DB_SIZE is 1028 * 1028 * 1028 = 1,086,373,952, which is not
\* 1024^3 = 1,073,741,824 and is less than 2^32, as is the intermediate
\* product 1028 * 1028; and a ScabbardFactory made by new has that db_size
\* when new was given no size, and the size new was given otherwise.
C40_DefaultDbSize ==
    /\ DEFAULT_DB_SIZE = 1086373952
    /\ DEFAULT_DB_SIZE # 1073741824
    /\ FitsUsize32(1028 * 1028)
    /\ FitsUsize32(DEFAULT_DB_SIZE)
    /\ fc_factory.made =>
          fc_factory.db_size = (IF fc_new.db_size.some
                                THEN fc_new.db_size.value
                                ELSE 1086373952)

\* A factory was made without a size, and a service created by it got the
\* default size.
C40_Witness ==
    /\ fc_factory.made
    /\ ~fc_new.db_size.some
    /\ fc_factory.db_size = 1086373952
    /\ fc_result.kind = "Ok"
    /\ fc_result.service.db_size = 1086373952
====
